---- MODULE Spec2Model ----
(***************************************************************************)
(* camunda8-js-sdk-esm: the REST Job Worker (CamundaJobWorker), the OAuth  *)
(* token provider (OAuthProvider), the lossless JSON codec                 *)
(* (losslessParse / losslessStringify), the specialized class factories,   *)
(* the body of the token request, constructOauthProvider,                  *)
(* OperateApiClient.addTenantIdToFilter and getMetadata, each as a state   *)
(* machine.                                                                *)
(*                                                                         *)
(* The specifications SpecWorker (SpecWorkerLive with fairness),           *)
(* SpecOAuth, SpecCodec, SpecFactory, SpecAudience, SpecProvider,          *)
(* SpecOperate and SpecMetadata share the module.  Each leaves the other   *)
(* components' variables alone.                                            *)
(***************************************************************************)
EXTENDS Integers, Sequences, FiniteSets, TLC

VARIABLES
    \* ---- CamundaJobWorker ----
    config,                   \* CamundaJobWorkerConfig: maxJobsToActivate, autoStart
    currentlyActiveJobCount,  \* this.currentlyActiveJobCount
    loopHandle,               \* this.loopHandle: the retained interval handle, 0 when never set
    intervals,                \* handles of the live setInterval poll timers
    activations,              \* outstanding restClient.activateJobs requests: how many ask for n jobs
    jobs,                     \* activated jobs, in activation order: each one handleJob invocation
    stopCall,                 \* the latest stop() call: its deadline, its promise, its timers
    emitted,                  \* number of 'start', 'poll', 'pollError' events emitted
    starts                    \* number of start() calls so far (constructor auto-start included)

VARIABLES
    \* ---- OAuthProvider ----
    oauthConfig,              \* isCamundaSaaS, refreshWindow, whether a persistentCache was passed
    tokenCache,               \* this.tokenCache: Map from `${clientId}-${audience}` to Token
    persistentCache,          \* the entries of the IPersistentCacheProvider
    inflightTokenRequest,     \* this.inflightTokenRequest: a promise id, 0 for undefined
    failed,                   \* this.failed
    failureCount,             \* this.failureCount
    promises,                 \* the promises getToken created: audience, credentials, timer, request
    calls,                    \* the getToken calls made, in call order, with their outcome
    clock                     \* Date.now(), in ms

VARIABLES
    \* ---- losslessParse / losslessStringify ----
    obj,                      \* the value handed to losslessStringify, if any
    json,                     \* the JSON text: handed to losslessParse, or made by losslessStringify
    dto,                      \* the dto argument of losslessParse: a class name or "undefined"
    keyToParse,               \* the keyToParse argument of losslessParse, "" when not given
    parsed                    \* what losslessParse returned or threw

VARIABLES
    \* ---- the specialized class factories ----
    reflectLoaded,            \* whether Reflect.defineMetadata exists (reflect-metadata was loaded)
    cache,                    \* the Map of each factory: cacheKey -> class
    classes,                  \* the classes the factories created, with what was registered on them
    factoryCalls,             \* the factory calls made, in order, with what each returned
    response                  \* the last activation response parsed with a factory class

VARIABLES
    \* ---- OAuthProvider: the body of the token request ----
    audienceCase,             \* isCamundaSaaS, the configured audiences, the audience requested
    tokenRequestBody          \* the parameters of the body makeDebouncedTokenRequest posts

VARIABLES
    \* ---- constructOauthProvider and the providers it returns ----
    sdkConfig,                \* the configuration handed to constructOauthProvider
    authProvider,             \* what constructOauthProvider returned or threw
    tokens                    \* what the getToken calls on that provider resolved to, in order

VARIABLES
    \* ---- OperateApiClient.addTenantIdToFilter ----
    operateConfig,            \* CAMUNDA_TENANT_ID of the client
    queryCall,                \* the arguments of the call: query and tenantId
    enhancedQuery             \* what the call returned

VARIABLES
    \* ---- getMetadata ----
    metadataTarget,           \* the target argument: a class or an instance
    metadataKey,              \* the key argument
    metadataFound             \* what getMetadata returned

workerVars == <<config, currentlyActiveJobCount, loopHandle, intervals,
                activations, jobs, stopCall, emitted, starts>>

oauthVars == <<oauthConfig, tokenCache, persistentCache, inflightTokenRequest,
               failed, failureCount, promises, calls, clock>>

codecVars == <<obj, json, dto, keyToParse, parsed>>

factoryVars == <<reflectLoaded, cache, classes, factoryCalls, response>>

audienceVars == <<audienceCase, tokenRequestBody>>

providerVars == <<sdkConfig, authProvider, tokens>>

operateVars == <<operateConfig, queryCall, enhancedQuery>>

metadataVars == <<metadataTarget, metadataKey, metadataFound>>

vars == <<workerVars, oauthVars, codecVars, factoryVars,
          audienceVars, providerVars, operateVars, metadataVars>>

----------------------------------------------------------------------------
(* Bounds of the worker model *)

MaxPolls == 3          \* poll() runs explored
MaxJobs == 2           \* jobs the broker hands out in total
MaxStarts == 2         \* start() calls explored

MaxJobsToActivateChoices == {1, 2}
DeadlineChoices == {300, 700, 1000}
\* autoStart?: boolean, "undefined" when the option is omitted
AutoStartChoices == {"undefined", "true", "false"}
RetriesChoices == {3}

\* setInterval(..., 500) in stop()
DrainCheckIntervalMs == 500

\* What a job handler can throw or reject with.
ThrownValues == {"ErrorObj", "undefined"}

(* Bounds of the OAuth model *)

MaxCalls == 3          \* getToken calls explored
MaxClock == 2000       \* the clock stops here (ms)
ClockStepMs == 500     \* granularity of the clock (ms)

Audiences == {"ZEEBE", "CONSOLE"}
RefreshWindowChoices == {0, 1000}

\* The exp claim (seconds) of the JWTs the token endpoint issues; NoExp: no claim.
NoExp == 0 - 1
ExpClaimChoices == {NoExp, 2}

\* const backoffTokenEndpointFailure = 1000
backoffTokenEndpointFailure == 1000

\* ZEEBE_CLIENT_ID and CAMUNDA_CONSOLE_CLIENT_ID
ClientId == "zeebe-client-id"
ConsoleClientId == "console-client-id"

\* The credential left out of the configuration, if any: the secret of the
\* primary pair or the id of the console pair.  The constructor accepts a
\* configuration only when one of the two pairs is complete.
MissingChoices == {"none", "ZEEBE_CLIENT_SECRET", "CAMUNDA_CONSOLE_CLIENT_ID"}

\* The configurations explored; those with a credential missing are explored
\* with a refresh window of 0 only.
OAuthConfigs ==
    {c \in [isCamundaSaaS : BOOLEAN, persistent : BOOLEAN,
            refreshWindow : RefreshWindowChoices, missing : MissingChoices] :
        c.missing # "none" => c.refreshWindow = 0}

----------------------------------------------------------------------------
(* Helpers *)

Max(S) == CHOOSE x \in S : \A y \in S : x >= y

\* (error as Error).toString(): a TypeError for null and undefined.
CanStringify(v) == v \notin {"null", "undefined"}

ErrorToString(v) == IF v = "ErrorObj" THEN "Error: boom" ELSE "boom"

Unfinished == {j \in 1..Len(jobs) : jobs[j].st # "done"}

----------------------------------------------------------------------------
(* Each specification drives one component; the others stay as constructed. *)

\* undefined: no value yet.
None == [t |-> "undefined"]

CodecUnused ==
    /\ obj = None
    /\ json = None
    /\ dto = "undefined"
    /\ keyToParse = ""
    /\ parsed = None

FactoryUnused ==
    /\ reflectLoaded = FALSE
    /\ cache = [job |-> << >>, processInstance |-> << >>]
    /\ classes = << >>
    /\ factoryCalls = << >>
    /\ response = None

AudienceUnused ==
    /\ audienceCase = None
    /\ tokenRequestBody = None

ProviderUnused ==
    /\ sdkConfig = None
    /\ authProvider = None
    /\ tokens = << >>

OperateUnused ==
    /\ operateConfig = None
    /\ queryCall = None
    /\ enhancedQuery = None

MetadataUnused ==
    /\ metadataTarget = None
    /\ metadataKey = ""
    /\ metadataFound = None

OthersUnused == AudienceUnused /\ ProviderUnused /\ OperateUnused /\ MetadataUnused

NoJwt == [serial |-> 0, aud |-> "none", exp |-> NoExp]

OAuthUnused ==
    /\ oauthConfig = [isCamundaSaaS |-> FALSE, persistent |-> FALSE, refreshWindow |-> 0,
                      missing |-> "none"]
    /\ tokenCache = << >>
    /\ persistentCache = << >>
    /\ inflightTokenRequest = 0
    /\ failed = FALSE
    /\ failureCount = 0
    /\ promises = << >>
    /\ calls = << >>
    /\ clock = 0

WorkerUnused ==
    /\ config = [maxJobsToActivate |-> 1, autoStart |-> "false"]
    /\ currentlyActiveJobCount = 0
    /\ loopHandle = 0
    /\ intervals = {}
    /\ activations = [want \in {1} |-> 0]
    /\ jobs = << >>
    /\ stopCall = [deadlineMs |-> 0, phase |-> "none", checks |-> 0, emittedStop |-> FALSE]
    /\ emitted = [start |-> 0, poll |-> 0, pollError |-> 0]
    /\ starts = 0

----------------------------------------------------------------------------
(* CamundaJobWorker *)

\* The sizes a poll() can ask for: maxJobsToActivate - currentlyActiveJobCount.
Wants == 1..Max(MaxJobsToActivateChoices)

NoActivations == [want \in Wants |-> 0]

\* A poll() that always asks for a full batch.
pollFullBatch(acts, count) ==
    IF count >= config.maxJobsToActivate
        THEN acts
        ELSE [acts EXCEPT ![config.maxJobsToActivate] = @ + 1]

\* poll(): the activation requests left outstanding after one poll() run with
\* the given active count.  At capacity no request is made.
poll(acts, count) ==
    IF count >= config.maxJobsToActivate
        THEN acts
        ELSE [acts EXCEPT ![config.maxJobsToActivate - count] = @ + 1]

\* A stop() call.  Its two timers are armed in the same tick, so their
\* callbacks run in due order: the k-th drain check is due 500k ms after the
\* call, the deadline timeout deadlineMs after it.  checks counts the drain
\* checks that have run.
NoStop(d) == [deadlineMs |-> d, phase |-> "none", checks |-> 0,
              emittedStop |-> FALSE]

NextCheckDue == (stopCall.checks + 1) * DrainCheckIntervalMs

\* An option that defaults to off: config.autoStart ?? false
autoStartDefaultsOff == config.autoStart = "true"

\* config.autoStart ?? true
autoStartRequested == config.autoStart \in {"undefined", "true"}

\* constructor: fields initialised, then start() when autoStart ?? true.
WorkerInit ==
    /\ config \in [maxJobsToActivate : MaxJobsToActivateChoices,
                   autoStart : AutoStartChoices]
    /\ currentlyActiveJobCount = 0
    /\ jobs = <<>>
    /\ stopCall = NoStop(0)
    /\ OAuthUnused
    /\ CodecUnused
    /\ FactoryUnused
    /\ OthersUnused
    /\ IF autoStartRequested
         THEN /\ emitted = [start |-> 1, poll |-> 1, pollError |-> 0]
              /\ activations = poll(NoActivations, 0)
              /\ intervals = {1}
              /\ loopHandle = 1
              /\ starts = 1
         ELSE /\ emitted = [start |-> 0, poll |-> 0, pollError |-> 0]
              /\ activations = NoActivations
              /\ intervals = {}
              /\ loopHandle = 0
              /\ starts = 0

\* A start() that clears the timer it holds before creating the next.
startReplacesTimer ==
    /\ starts < MaxStarts
    /\ emitted.poll < MaxPolls
    /\ emitted' = [emitted EXCEPT !.start = @ + 1, !.poll = @ + 1]
    /\ activations' = poll(activations, currentlyActiveJobCount)
    /\ intervals' = (intervals \ {loopHandle}) \cup {starts + 1}
    /\ loopHandle' = starts + 1
    /\ starts' = starts + 1
    /\ UNCHANGED <<config, currentlyActiveJobCount, jobs, stopCall>>
    /\ UNCHANGED <<oauthVars, codecVars, factoryVars,
                   audienceVars, providerVars, operateVars, metadataVars>>

\* start(): emit 'start', poll() at once, then a new interval timer whose
\* handle overwrites this.loopHandle.
start ==
    /\ starts < MaxStarts
    /\ emitted.poll < MaxPolls
    /\ emitted' = [emitted EXCEPT !.start = @ + 1, !.poll = @ + 1]
    /\ activations' = poll(activations, currentlyActiveJobCount)
    /\ intervals' = intervals \cup {starts + 1}
    /\ loopHandle' = starts + 1
    /\ starts' = starts + 1
    /\ UNCHANGED <<config, currentlyActiveJobCount, jobs, stopCall>>
    /\ UNCHANGED <<oauthVars, codecVars, factoryVars,
                   audienceVars, providerVars, operateVars, metadataVars>>

\* One firing of a setInterval(() => this.poll(), pollInterval) timer.
PollTick(h) ==
    /\ h \in intervals
    /\ emitted.poll < MaxPolls
    /\ emitted' = [emitted EXCEPT !.poll = @ + 1]
    /\ activations' = poll(activations, currentlyActiveJobCount)
    /\ UNCHANGED <<config, currentlyActiveJobCount, loopHandle, intervals, jobs,
                   stopCall, starts>>
    /\ UNCHANGED <<oauthVars, codecVars, factoryVars,
                   audienceVars, providerVars, operateVars, metadataVars>>

NewJob(r) == [st |-> "handler", retries |-> r, thrown |-> "none",
              failCalls |-> 0, failRetries |-> 0, failMessage |-> "",
              failOutcome |-> "none"]

\* activateJobs(...).then(jobs => ...): the count grows by the batch size and
\* handleJob starts for every job of the batch.
ActivationResolves(want, batch) ==
    /\ activations[want] > 0
    /\ Len(batch) <= want
    /\ Len(jobs) + Len(batch) <= MaxJobs
    /\ activations' = [activations EXCEPT ![want] = @ - 1]
    /\ currentlyActiveJobCount' = currentlyActiveJobCount + Len(batch)
    /\ jobs' = jobs \o [i \in 1..Len(batch) |-> NewJob(batch[i])]
    /\ UNCHANGED <<config, loopHandle, intervals, stopCall, emitted, starts>>
    /\ UNCHANGED <<oauthVars, codecVars, factoryVars,
                   audienceVars, providerVars, operateVars, metadataVars>>

\* A failure handler that asks again at once.
ActivationRejectsAndRetries(want) ==
    /\ activations[want] > 0
    /\ emitted' = [emitted EXCEPT !.pollError = @ + 1]
    /\ UNCHANGED <<config, currentlyActiveJobCount, loopHandle, intervals, jobs,
                   stopCall, starts, activations>>
    /\ UNCHANGED <<oauthVars, codecVars, factoryVars,
                   audienceVars, providerVars, operateVars, metadataVars>>

\* activateJobs(...).catch(error => this.emit('pollError', error))
ActivationRejects(want) ==
    /\ activations[want] > 0
    /\ activations' = [activations EXCEPT ![want] = @ - 1]
    /\ emitted' = [emitted EXCEPT !.pollError = @ + 1]
    /\ UNCHANGED <<config, currentlyActiveJobCount, loopHandle, intervals, jobs,
                   stopCall, starts>>
    /\ UNCHANGED <<oauthVars, codecVars, factoryVars,
                   audienceVars, providerVars, operateVars, metadataVars>>

\* handleJob: the awaited jobHandler settles successfully; finally decrements.
HandlerReturns(j) ==
    /\ j \in 1..Len(jobs)
    /\ jobs[j].st = "handler"
    /\ jobs' = [jobs EXCEPT ![j].st = "done"]
    /\ currentlyActiveJobCount' = currentlyActiveJobCount - 1
    /\ UNCHANGED <<config, loopHandle, intervals, activations, stopCall, emitted, starts>>
    /\ UNCHANGED <<oauthVars, codecVars, factoryVars,
                   audienceVars, providerVars, operateVars, metadataVars>>

\* handleJob: the jobHandler throws or rejects with v.  The catch block logs,
\* evaluates (error as Error).toString() and awaits job.fail({errorMessage,
\* retries: job.retries - 1}).  When toString() itself throws, control goes
\* straight to finally and job.fail is never called.
HandlerThrows(j, v) ==
    /\ j \in 1..Len(jobs)
    /\ jobs[j].st = "handler"
    /\ IF CanStringify(v)
         THEN /\ jobs' = [jobs EXCEPT ![j].st = "failing",
                                      ![j].thrown = v,
                                      ![j].failCalls = @ + 1,
                                      ![j].failRetries = jobs[j].retries - 1,
                                      ![j].failMessage = ErrorToString(v)]
              /\ UNCHANGED currentlyActiveJobCount
         ELSE /\ jobs' = [jobs EXCEPT ![j].st = "done", ![j].thrown = v]
              /\ currentlyActiveJobCount' = currentlyActiveJobCount - 1
    /\ UNCHANGED <<config, loopHandle, intervals, activations, stopCall, emitted, starts>>
    /\ UNCHANGED <<oauthVars, codecVars, factoryVars,
                   audienceVars, providerVars, operateVars, metadataVars>>

\* FailSettles with the decrement after the try/catch instead of in finally:
\* a rejected job.fail leaves the count as it was.
FailSettlesNoFinally(j, ok) ==
    /\ j \in 1..Len(jobs)
    /\ jobs[j].st = "failing"
    /\ jobs' = [jobs EXCEPT ![j].st = "done",
                            ![j].failOutcome = IF ok THEN "resolved" ELSE "rejected"]
    /\ currentlyActiveJobCount' = currentlyActiveJobCount - (IF ok THEN 1 ELSE 0)
    /\ UNCHANGED <<config, loopHandle, intervals, activations, stopCall, emitted, starts>>
    /\ UNCHANGED <<oauthVars, codecVars, factoryVars,
                   audienceVars, providerVars, operateVars, metadataVars>>

\* handleJob: the awaited job.fail(...) settles (ok: resolved, otherwise
\* rejected); finally decrements in both cases.
FailSettles(j, ok) ==
    /\ j \in 1..Len(jobs)
    /\ jobs[j].st = "failing"
    /\ jobs' = [jobs EXCEPT ![j].st = "done",
                            ![j].failOutcome = IF ok THEN "resolved" ELSE "rejected"]
    /\ currentlyActiveJobCount' = currentlyActiveJobCount - 1
    /\ UNCHANGED <<config, loopHandle, intervals, activations, stopCall, emitted, starts>>
    /\ UNCHANGED <<oauthVars, codecVars, factoryVars,
                   audienceVars, providerVars, operateVars, metadataVars>>

\* stop() without the clearInterval: the poll timer keeps firing.
stopKeepsPolling(d) ==
    /\ stopCall.phase # "waiting"
    /\ stopCall' =
         IF currentlyActiveJobCount = 0
           THEN [NoStop(d) EXCEPT !.phase = "resolved", !.emittedStop = TRUE]
           ELSE [NoStop(d) EXCEPT !.phase = "waiting"]
    /\ UNCHANGED <<config, currentlyActiveJobCount, loopHandle, intervals,
                   activations, jobs, emitted, starts>>
    /\ UNCHANGED <<oauthVars, codecVars, factoryVars,
                   audienceVars, providerVars, operateVars, metadataVars>>

\* stop(deadlineMs): clearInterval(this.loopHandle); with no active job emit
\* 'stop' and resolve, otherwise arm the deadline timeout and the 500ms check.
\* Callers await the returned promise: stop() is not called again while an
\* earlier call is pending.
stop(d) ==
    /\ stopCall.phase # "waiting"
    /\ intervals' = intervals \ {loopHandle}
    /\ stopCall' =
         IF currentlyActiveJobCount = 0
           THEN [NoStop(d) EXCEPT !.phase = "resolved", !.emittedStop = TRUE]
           ELSE [NoStop(d) EXCEPT !.phase = "waiting"]
    /\ UNCHANGED <<config, currentlyActiveJobCount, loopHandle, activations, jobs,
                   emitted, starts>>
    /\ UNCHANGED <<oauthVars, codecVars, factoryVars,
                   audienceVars, providerVars, operateVars, metadataVars>>

\* The setInterval(..., 500) callback of a pending stop().  It runs only while
\* the deadline timeout, which clears it, has not run: so only when it is due
\* before the deadline, or at the same instant from the second check on (the
\* first check and a 500ms deadline have the same delay, and the timeout was
\* armed first).
DrainCheck ==
    /\ stopCall.phase = "waiting"
    /\ \/ NextCheckDue < stopCall.deadlineMs
       \/ NextCheckDue = stopCall.deadlineMs /\ stopCall.checks >= 1
    /\ stopCall' =
         IF currentlyActiveJobCount = 0
           THEN [stopCall EXCEPT !.phase = "resolved", !.emittedStop = TRUE,
                                 !.checks = @ + 1]
           ELSE [stopCall EXCEPT !.checks = @ + 1]
    /\ UNCHANGED <<config, currentlyActiveJobCount, loopHandle, intervals,
                   activations, jobs, emitted, starts>>
    /\ UNCHANGED <<oauthVars, codecVars, factoryVars,
                   audienceVars, providerVars, operateVars, metadataVars>>

\* A deadline callback that rejects nothing and clears nothing.
DrainTimeoutDoesNotReject ==
    /\ stopCall.phase = "waiting"
    /\ NextCheckDue >= stopCall.deadlineMs
    /\ UNCHANGED <<config, currentlyActiveJobCount, loopHandle, intervals,
                   activations, jobs, emitted, starts, stopCall>>
    /\ UNCHANGED <<oauthVars, codecVars, factoryVars,
                   audienceVars, providerVars, operateVars, metadataVars>>

\* The setTimeout(..., deadlineMs) callback of a pending stop(): clears the
\* check interval and rejects.  It runs once every drain check due before it
\* has run.
DrainTimeout ==
    /\ stopCall.phase = "waiting"
    /\ NextCheckDue >= stopCall.deadlineMs
    /\ stopCall' = [stopCall EXCEPT !.phase = "rejected"]
    /\ UNCHANGED <<config, currentlyActiveJobCount, loopHandle, intervals,
                   activations, jobs, emitted, starts>>
    /\ UNCHANGED <<oauthVars, codecVars, factoryVars,
                   audienceVars, providerVars, operateVars, metadataVars>>

WorkerNext ==
    \/ start
    \/ \E h \in intervals : PollTick(h)
    \/ \E want \in Wants : \E n \in 0..want :
           \E batch \in [1..n -> RetriesChoices] : ActivationResolves(want, batch)
    \/ \E want \in Wants : ActivationRejects(want)
    \/ \E j \in 1..Len(jobs) : HandlerReturns(j)
    \/ \E j \in 1..Len(jobs) : \E v \in ThrownValues : HandlerThrows(j, v)
    \/ \E j \in 1..Len(jobs) : \E ok \in BOOLEAN : FailSettles(j, ok)
    \/ \E d \in DeadlineChoices : stop(d)
    \/ DrainCheck
    \/ DrainTimeout

SpecWorker == WorkerInit /\ [][WorkerNext]_vars

\* The two timers of a pending stop() fire when they are due; nothing is
\* assumed about job handlers, activation requests or the caller.
SpecWorkerLive ==
    /\ SpecWorker
    /\ WF_vars(DrainCheck)
    /\ WF_vars(DrainTimeout)

----------------------------------------------------------------------------
(* OAuthProvider *)

Without(f, k) == [x \in DOMAIN f \ {k} |-> f[x]]

With(f, k, v) == [x \in DOMAIN f \cup {k} |-> IF x = k THEN v ELSE f[x]]

\* isTokenExpired with > for >=: a token is kept at the very instant it
\* enters the refresh window.
isTokenExpiredStrict(token, refreshWindow, currentTime) ==
    currentTime > token.expiry * 1000 - refreshWindow

\* OAuthProvider.isTokenExpired: token.expiry is in seconds, the rest in ms.
isTokenExpired(token, refreshWindow, currentTime) ==
    currentTime >= token.expiry * 1000 - refreshWindow

\* The gate ignored: every getToken that misses the caches makes its own promise
\* (= for ||=).
gateIgnored == TRUE

\* this.inflightTokenRequest ||= ...: a new promise only when none is held.
gateIsFree == inflightTokenRequest = 0

\* A backoff that does not grow with the number of failures.
backoffDelayConstant == IF failed THEN backoffTokenEndpointFailure ELSE 0

\* The setTimeout delay of a new token request:
\* this.failed ? backoffTokenEndpointFailure * this.failureCount : 0
backoffDelay == IF failed THEN backoffTokenEndpointFailure * failureCount ELSE 0

\* this.clientId, this.clientSecret, this.consoleClientId and
\* this.consoleClientSecret, by the configuration key they are read from.
Configured(key) ==
    IF oauthConfig.missing = key THEN "undefined"
    ELSE IF key = "ZEEBE_CLIENT_ID" THEN ClientId
    ELSE IF key = "CAMUNDA_CONSOLE_CLIENT_ID" THEN ConsoleClientId
    ELSE IF key = "ZEEBE_CLIENT_SECRET" THEN "zeebe-client-secret"
    ELSE "console-client-secret"

\* getCacheKey: `${this.clientId}-${audience}`
getCacheKey(audience) == <<Configured("ZEEBE_CLIENT_ID"), audience>>

\* A selection that never takes the console pair.
requestingFromPrimaryAlways(audienceType) == FALSE

\* this.isCamundaSaaS && (audienceType === 'CONSOLE' || audienceType === 'MODELER')
requestingFromSaasConsole(audienceType) ==
    oauthConfig.isCamundaSaaS /\ audienceType \in {"CONSOLE", "MODELER"}

\* The configuration keys of the credential pair getToken selects.
idKeyToUse(audienceType) ==
    IF requestingFromSaasConsole(audienceType)
        THEN "CAMUNDA_CONSOLE_CLIENT_ID"
        ELSE "ZEEBE_CLIENT_ID"

secretKeyToUse(audienceType) ==
    IF requestingFromSaasConsole(audienceType)
        THEN "CAMUNDA_CONSOLE_CLIENT_SECRET"
        ELSE "ZEEBE_CLIENT_SECRET"

\* requireConfiguration(config, key): throws the error naming key when the
\* value is falsy.
requireConfiguration(value, key) ==
    IF value = "undefined"
        THEN [t |-> "throws", error |-> "MissingConfiguration", key |-> key]
        ELSE [t |-> "ok", value |-> value]

\* The credential pair getToken selects: the console pair on SaaS for the
\* CONSOLE and MODELER audiences, the primary pair otherwise.
clientIdToUse(audienceType) == Configured(idKeyToUse(audienceType))

clientSecretToUse(audienceType) == Configured(secretKeyToUse(audienceType))

\* A durable-cache lookup under the key of the memory cache.
persistentCacheKeyPrimary(audienceType) == getCacheKey(audienceType)

\* The key of getToken's durable-cache lookup: `${clientIdToUse}-${audienceType}`
persistentCacheKey(audienceType) == <<clientIdToUse(audienceType), audienceType>>

\* The decoded claim as it is, without the default for an absent one.
decodedExpiryRaw(jwt) == jwt.exp

\* jwtDecode(token.access_token).exp ?? 0
decodedExpiry(jwt) == IF jwt.exp = NoExp THEN 0 ELSE jwt.exp

Settled == {p \in 1..Len(promises) : promises[p].phase \in {"resolved", "rejected"}}

Outstanding == {p \in 1..Len(promises) : promises[p].phase = "outstanding"}

OAuthInit ==
    /\ oauthConfig \in OAuthConfigs
    /\ tokenCache = << >>
    /\ persistentCache = << >>
    /\ inflightTokenRequest = 0
    /\ failed = FALSE
    /\ failureCount = 0
    /\ promises = << >>
    /\ calls = << >>
    /\ clock = 0
    /\ WorkerUnused
    /\ CodecUnused
    /\ FactoryUnused
    /\ OthersUnused

NewCall(audienceType) ==
    [audience |-> audienceType, status |-> "pending", result |-> NoJwt,
     via |-> "request", promise |-> 0, responsesBefore |-> Cardinality(Settled),
     missing |-> "none"]

\* getToken(audienceType), up to its return: requireConfiguration of the
\* selected client id, then of its secret (a throw rejects the call, getToken
\* being async); then the memory cache, then the persistent cache, then
\* this.inflightTokenRequest ||= new Promise(...), whose executor arms the
\* timer that will make the request.
getToken(audienceType) ==
    LET id == requireConfiguration(clientIdToUse(audienceType),
                                   idKeyToUse(audienceType))
        secret == requireConfiguration(clientSecretToUse(audienceType),
                                       secretKeyToUse(audienceType))
        key == getCacheKey(audienceType)
        token == tokenCache[key]
        memHit == key \in DOMAIN tokenCache
        memExpired == memHit /\ isTokenExpired(token, oauthConfig.refreshWindow, clock)
        memAfter == IF memExpired THEN Without(tokenCache, key) ELSE tokenCache
        pkey == persistentCacheKey(audienceType)
        cachedToken == persistentCache[pkey]
        fileHit == oauthConfig.persistent /\ pkey \in DOMAIN persistentCache
        fileExpired == fileHit /\ isTokenExpired(cachedToken, oauthConfig.refreshWindow, clock)
        p == Len(promises) + 1
        delay == backoffDelay
    IN
    /\ Len(calls) < MaxCalls
    /\ IF id.t = "throws" \/ secret.t = "throws"
         THEN /\ calls' = Append(calls, [NewCall(audienceType) EXCEPT
                    !.status = "rejected", !.via = "config",
                    !.missing = IF id.t = "throws" THEN id.key ELSE secret.key])
              /\ UNCHANGED <<tokenCache, persistentCache, inflightTokenRequest, promises>>
         ELSE IF memHit /\ ~memExpired
         THEN /\ calls' = Append(calls, [NewCall(audienceType) EXCEPT
                    !.status = "resolved", !.result = token.access_token,
                    !.via = "memory"])
              /\ UNCHANGED <<tokenCache, persistentCache, inflightTokenRequest, promises>>
         ELSE IF fileHit /\ ~fileExpired
           THEN /\ tokenCache' = memAfter
                /\ calls' = Append(calls, [NewCall(audienceType) EXCEPT
                      !.status = "resolved", !.result = cachedToken.access_token,
                      !.via = "durable"])
                /\ UNCHANGED <<persistentCache, inflightTokenRequest, promises>>
           ELSE /\ tokenCache' = memAfter
                /\ persistentCache' = IF fileExpired THEN Without(persistentCache, pkey)
                                                     ELSE persistentCache
                /\ IF gateIsFree
                     THEN /\ promises' = Append(promises,
                                [audienceType |-> audienceType,
                                 clientIdToUse |-> clientIdToUse(audienceType),
                                 phase |-> "scheduled", delay |-> delay,
                                 due |-> clock + delay, sent |-> 0])
                          /\ inflightTokenRequest' = p
                     ELSE UNCHANGED <<promises, inflightTokenRequest>>
                /\ calls' = Append(calls, [NewCall(audienceType) EXCEPT
                      !.promise = inflightTokenRequest'])
    /\ UNCHANGED <<oauthConfig, failed, failureCount, clock>>
    /\ UNCHANGED <<workerVars, codecVars, factoryVars,
                   audienceVars, providerVars, operateVars, metadataVars>>

\* The setTimeout callback of a promise: makeDebouncedTokenRequest posts the
\* client-credentials request to the token endpoint.
makeDebouncedTokenRequest(p) ==
    /\ p \in 1..Len(promises)
    /\ promises[p].phase = "scheduled"
    /\ clock >= promises[p].due
    /\ promises' = [promises EXCEPT ![p].phase = "outstanding", ![p].sent = @ + 1]
    /\ UNCHANGED <<oauthConfig, tokenCache, persistentCache, inflightTokenRequest,
                   failed, failureCount, calls, clock>>
    /\ UNCHANGED <<workerVars, codecVars, factoryVars,
                   audienceVars, providerVars, operateVars, metadataVars>>

\* A sendToMemoryCache that stores nothing.
sendToMemoryCacheNothing(audience, token) == tokenCache

\* sendToMemoryCache({audience, token}): this.tokenCache.set(key, token), the
\* token carrying the expiry decoded from its access token.
sendToMemoryCache(audience, token) == With(tokenCache, getCacheKey(audience), token)

SettleCalls(p, status, jwt) ==
    [c \in 1..Len(calls) |->
        IF calls[c].promise = p /\ calls[c].status = "pending"
            THEN [calls[c] EXCEPT !.status = status, !.result = jwt]
            ELSE calls[c]]

\* A success that leaves the settled promise in the gate.
TokenRequestSucceedsKeepsGate(p, exp) ==
    LET req == promises[p]
        jwt == [serial |-> p, aud |-> req.audienceType, exp |-> exp]
        token == [access_token |-> jwt, audience |-> req.audienceType,
                  expiry |-> decodedExpiry(jwt)]
    IN
    /\ p \in Outstanding
    /\ persistentCache' = IF oauthConfig.persistent
                            THEN With(persistentCache,
                                      <<req.clientIdToUse, req.audienceType>>, token)
                            ELSE persistentCache
    /\ tokenCache' = sendToMemoryCache(req.audienceType, token)
    /\ failed' = FALSE
    /\ failureCount' = 0
    /\ promises' = [promises EXCEPT ![p].phase = "resolved"]
    /\ calls' = SettleCalls(p, "resolved", jwt)
    /\ UNCHANGED <<oauthConfig, inflightTokenRequest, clock>>
    /\ UNCHANGED <<workerVars, codecVars, factoryVars,
                   audienceVars, providerVars, operateVars, metadataVars>>

\* The token endpoint answers with an access token carrying the exp claim:
\* the token is stored (persistent cache if any, then memory cache), then
\* failed/failureCount are reset, the gate is cleared and the promise resolved.
TokenRequestSucceeds(p, exp) ==
    LET req == promises[p]
        jwt == [serial |-> p, aud |-> req.audienceType, exp |-> exp]
        token == [access_token |-> jwt, audience |-> req.audienceType,
                  expiry |-> decodedExpiry(jwt)]
    IN
    /\ p \in Outstanding
    /\ persistentCache' = IF oauthConfig.persistent
                            THEN With(persistentCache,
                                      <<req.clientIdToUse, req.audienceType>>, token)
                            ELSE persistentCache
    /\ tokenCache' = sendToMemoryCache(req.audienceType, token)
    /\ failed' = FALSE
    /\ failureCount' = 0
    /\ inflightTokenRequest' = 0
    /\ promises' = [promises EXCEPT ![p].phase = "resolved"]
    /\ calls' = SettleCalls(p, "resolved", jwt)
    /\ UNCHANGED <<oauthConfig, clock>>
    /\ UNCHANGED <<workerVars, codecVars, factoryVars,
                   audienceVars, providerVars, operateVars, metadataVars>>

\* A failure that is retried inside the call: the request is scheduled again
\* and the callers keep waiting.
TokenRequestFailsAndRetries(p) ==
    /\ p \in Outstanding
    /\ failureCount' = failureCount + 1
    /\ failed' = TRUE
    /\ promises' = [promises EXCEPT ![p].phase = "scheduled"]
    /\ UNCHANGED <<oauthConfig, tokenCache, persistentCache, inflightTokenRequest,
                   calls, clock>>
    /\ UNCHANGED <<workerVars, codecVars, factoryVars,
                   audienceVars, providerVars, operateVars, metadataVars>>

\* The request fails (network error, error-shaped body, no access_token):
\* failureCount++, failed, the gate is cleared and the promise rejected.
TokenRequestFails(p) ==
    /\ p \in Outstanding
    /\ failureCount' = failureCount + 1
    /\ failed' = TRUE
    /\ inflightTokenRequest' = 0
    /\ promises' = [promises EXCEPT ![p].phase = "rejected"]
    /\ calls' = SettleCalls(p, "rejected", NoJwt)
    /\ UNCHANGED <<oauthConfig, tokenCache, persistentCache, clock>>
    /\ UNCHANGED <<workerVars, codecVars, factoryVars,
                   audienceVars, providerVars, operateVars, metadataVars>>

\* flushMemoryCache(): this.tokenCache.clear()
flushMemoryCache ==
    /\ tokenCache # << >>
    /\ tokenCache' = << >>
    /\ UNCHANGED <<oauthConfig, persistentCache, inflightTokenRequest, failed,
                   failureCount, promises, calls, clock>>
    /\ UNCHANGED <<workerVars, codecVars, factoryVars,
                   audienceVars, providerVars, operateVars, metadataVars>>

\* Time passes.
Tick ==
    /\ clock + ClockStepMs <= MaxClock
    /\ clock' = clock + ClockStepMs
    /\ UNCHANGED <<oauthConfig, tokenCache, persistentCache, inflightTokenRequest,
                   failed, failureCount, promises, calls>>
    /\ UNCHANGED <<workerVars, codecVars, factoryVars,
                   audienceVars, providerVars, operateVars, metadataVars>>

OAuthNext ==
    \/ \E audienceType \in Audiences : getToken(audienceType)
    \/ \E p \in 1..Len(promises) : makeDebouncedTokenRequest(p)
    \/ \E p \in 1..Len(promises) : \E exp \in ExpClaimChoices : TokenRequestSucceeds(p, exp)
    \/ \E p \in 1..Len(promises) : TokenRequestFails(p)
    \/ flushMemoryCache
    \/ Tick

SpecOAuth == OAuthInit /\ [][OAuthNext]_vars

----------------------------------------------------------------------------
(* The lossless JSON codec *)

\* Bound: the longest array in a generated document or Dto instance.
MaxItems == 1

\* JSON number literals used in documents.  2^53 - 1 is the last integer every
\* neighbour of which a double also holds; 2^53 + 1 and 2^63 - 1 are not doubles.
Literals == {"7", "9007199254740991", "9007199254740993", "9223372036854775807"}

\* --- JSON text, as the document it spells ---
JNum(text) == [t |-> "jnum", text |-> text]
JStr(str) == [t |-> "jstr", chars |-> str]
JNull == [t |-> "jnull"]
JBool(b) == [t |-> "jbool", b |-> b]
JArr(items) == [t |-> "jarr", elems |-> items]
JObj(entries) == [t |-> "jobj", members |-> entries]

\* --- JavaScript values ---
LosslessNumber(value) == [t |-> "LosslessNumber", value |-> value]
Number(num) == [t |-> "number", num |-> num]
String(str) == [t |-> "string", str |-> str]
Null == [t |-> "null"]
Boolean(b) == [t |-> "boolean", b |-> b]
Array(items) == [t |-> "array", items |-> items]
\* An object: its class ("Object" for a plain one) and its own enumerable
\* properties, in insertion order.
Object(class, entries) == [t |-> "object", class |-> class, entries |-> entries]
\* A class is a function object.
Class(name) == [t |-> "function", name |-> name]
Entry(k, v) == [k |-> k, v |-> v]
\* new Date(), new Map(), new Set(): objects without own enumerable properties.
Date == [t |-> "Date"]
Map == [t |-> "Map"]
Set == [t |-> "Set"]

\* A thrown error, in place of a value: its kind and the field it names.
Thrown(error, key) == [t |-> "throws", error |-> error, key |-> key]
IsThrown(v) == v.t = "throws"

\* The first thrown error in a sequence of results, or the value made of them.
FirstThrownOr(results, value) ==
    IF \E i \in DOMAIN results : IsThrown(results[i])
      THEN results[CHOOSE i \in DOMAIN results :
                     /\ IsThrown(results[i])
                     /\ \A j \in DOMAIN results : j < i => ~IsThrown(results[j])]
      ELSE value

Has(entries, k) == \E i \in DOMAIN entries : entries[i].k = k
Get(entries, k) == entries[CHOOSE i \in DOMAIN entries : entries[i].k = k].v

\* JavaScript truthiness of a value.
Truthy(v) ==
    CASE v.t \in {"null", "undefined"} -> FALSE
      [] v.t = "boolean" -> v.b
      [] v.t = "string" -> v.str # ""
      [] OTHER -> TRUE

\* typeof value === "object" && value !== null
IsObjectLike(v) == v.t \in {"object", "array", "LosslessNumber", "Date", "Map", "Set"}

\* lossless-json isLosslessNumber: an object whose isLosslessNumber is true.
isLosslessNumber(v) ==
    \/ v.t = "LosslessNumber"
    \/ /\ v.t = "object"
       /\ Has(v.entries, "isLosslessNumber")
       /\ Get(v.entries, "isLosslessNumber") = Boolean(TRUE)

\* value.toString() of something isLosslessNumber accepts.
toString(v) == IF v.t = "LosslessNumber" THEN v.value ELSE "[object Object]"

\* String(parseFloat(text)): the shortest decimal of the nearest double.
StringOfParseFloat(text) ==
    CASE text = "9007199254740993" -> "9007199254740992"
      [] text = "9223372036854775807" -> "9223372036854776000"
      [] text = "[object Object]" -> "NaN"
      [] OTHER -> text

\* lossless-json extractSignificantDigits: exponent, dot, leading and trailing
\* zeros removed.
extractSignificantDigits(text) ==
    CASE text = "9223372036854776000" -> "9223372036854776"
      [] OTHER -> text

\* lossless-json isSafeNumber(value): the text survives the trip through a double.
isSafeNumber(text) ==
    extractSignificantDigits(text) = extractSignificantDigits(StringOfParseFloat(text))

\* parseFloat without the safety test.
toNumberUnchecked(text) == Number(StringOfParseFloat(text))

\* lossless-json toSafeNumberOrThrow.
toSafeNumberOrThrow(text) ==
    IF isSafeNumber(text)
      THEN Number(StringOfParseFloat(text))
      ELSE Thrown("UnsafeNumber", "")

\* A bigint made by way of a double: BigInt(Number(text)).
BigIntViaNumber(text) ==
    [t |-> "bigint", big |-> StringOfParseFloat(text)]

\* BigInt(text) of an integer literal: the bigint with that decimal expansion.
BigInt(text) ==
    [t |-> "bigint", big |-> text]

RECURSIVE parse(_)
\* lossless-json parse: every number becomes a LosslessNumber holding its text.
parse(doc) ==
    CASE doc.t = "jnum" -> LosslessNumber(doc.text)
      [] doc.t = "jstr" -> String(doc.chars)
      [] doc.t = "jnull" -> Null
      [] doc.t = "jbool" -> Boolean(doc.b)
      [] doc.t = "jarr" -> Array([i \in DOMAIN doc.elems |-> parse(doc.elems[i])])
      [] doc.t = "jobj" ->
           Object("Object", [i \in DOMAIN doc.members |->
                               Entry(doc.members[i].k, parse(doc.members[i].v))])

RECURSIVE stringify(_)
\* lossless-json stringify: a LosslessNumber and a bigint are written bare, a
\* string is quoted.
stringify(v) ==
    CASE v.t = "LosslessNumber" -> JNum(v.value)
      [] v.t = "number" -> JNum(v.num)
      [] v.t = "bigint" -> JNum(v.big)
      [] v.t = "string" -> JStr(v.str)
      [] v.t = "null" -> JNull
      [] v.t = "boolean" -> JBool(v.b)
      [] v.t = "array" -> JArr([i \in DOMAIN v.items |-> stringify(v.items[i])])
      [] v.t = "object" ->
           JObj([i \in DOMAIN v.entries |->
                   Entry(v.entries[i].k, stringify(v.entries[i].v))])

MetadataKey ==
    [INT64_STRING |-> "type:int64",
     INT64_STRING_ARRAY |-> "type:int64[]",
     INT64_BIGINT |-> "type:bigint",
     INT64_BIGINT_ARRAY |-> "type:bigint[]",
     CHILD_DTO |-> "child:class"]

NoMetadata == [type |-> "undefined", class |-> "undefined"]

\* The @Int64String fields of RestApiJob (c8-dto.ts).
RestApiJobInt64Fields ==
    {"key", "processInstanceKey", "processDefinitionKey", "elementInstanceKey", "deadline"}

\* The decorated classes of the model, besides RestApiJob and
\* CreateProcessInstanceResponse:
\*   class Variables extends LosslessDto { @Int64String bigValue }  (and its twin)
\*   class CustomHeaders extends LosslessDto { @Int64String bigHeader; smallHeader }
\*   class Child extends LosslessDto { @Int64String key; @BigIntValue big; n }
\*   class Dto extends LosslessDto { @Int64String key; @BigIntValue big;
\*       @Int64StringArray keys; @BigIntValueArray bigs; @ChildDto(Child) child; n }
\* setMetadata stores the directive under the field name on the class.
setMetadata(class, key) ==
    CASE class \in {"Dto", "Child"} /\ key = "key" ->
           [type |-> MetadataKey.INT64_STRING, class |-> "undefined"]
      [] class \in {"Dto", "Child"} /\ key = "big" ->
           [type |-> MetadataKey.INT64_BIGINT, class |-> "undefined"]
      [] class = "Dto" /\ key = "keys" ->
           [type |-> MetadataKey.INT64_STRING_ARRAY, class |-> "undefined"]
      [] class = "Dto" /\ key = "bigs" ->
           [type |-> MetadataKey.INT64_BIGINT_ARRAY, class |-> "undefined"]
      [] class = "Dto" /\ key = "child" ->
           [type |-> MetadataKey.CHILD_DTO, class |-> "Child"]
      [] class = "RestApiJob" /\ key \in RestApiJobInt64Fields ->
           [type |-> MetadataKey.INT64_STRING, class |-> "undefined"]
      [] class = "CreateProcessInstanceResponse"
           /\ key \in {"processDefinitionKey", "processInstanceKey"} ->
           [type |-> MetadataKey.INT64_STRING, class |-> "undefined"]
      [] class \in {"Variables", "VariablesTwin"} /\ key = "bigValue" ->
           [type |-> MetadataKey.INT64_STRING, class |-> "undefined"]
      [] class = "CustomHeaders" /\ key = "bigHeader" ->
           [type |-> MetadataKey.INT64_STRING, class |-> "undefined"]
      [] OTHER -> NoMetadata

\* The class whose Symbol.metadata a lookup on class finds: a class the
\* factories generate has no decorators of its own and inherits the object of
\* the class it extends.
Decorated(class) ==
    CASE class = "NewRestApiJobClass" -> "RestApiJob"
      [] class = "CustomCreateProcessInstanceResponseClass" -> "CreateProcessInstanceResponse"
      [] OTHER -> class

\* target.constructor: Function for a class; for an object its own property
\* of that name when it has one, and otherwise the class it was made by.
Constructor(target) ==
    CASE target.t = "function" -> Class("Function")
      [] target.t = "object" ->
           IF Has(target.entries, "constructor")
             THEN Get(target.entries, "constructor")
             ELSE Class(target.class)
      [] target.t = "array" -> Class("Array")
      [] OTHER -> Class(target.t)

\* value.name: the name of a function, the own property of that name of an
\* object, undefined on another value.
NameOf(value) ==
    CASE value.t = "function" -> value.name
      [] value.t = "object" /\ Has(value.entries, "name")
           /\ Get(value.entries, "name").t = "string" -> Get(value.entries, "name").str
      [] OTHER -> "undefined"

\* getMetadata(target, key): the directive stored for key on _target, which
\* is target when the name of its constructor is Function and its
\* constructor otherwise; {} when _target has no Symbol.metadata or nothing
\* is stored under key.  Reading .name of null or undefined throws.
getMetadata(target, key) ==
    LET constructor == Constructor(target)
    IN  IF constructor.t \in {"null", "undefined"}
          THEN Thrown("TypeError", "")
          ELSE LET _target == IF NameOf(constructor) = "Function"
                                THEN target
                                ELSE constructor
               IN  IF _target.t = "function"
                     THEN setMetadata(Decorated(_target.name), key)
                     ELSE NoMetadata

\* Object.entries(value): own enumerable properties; throws for null.
OwnEntries(v) ==
    CASE v.t = "object" -> v.entries
      [] v.t = "LosslessNumber" ->
           <<Entry("value", String(v.value)), Entry("isLosslessNumber", Boolean(TRUE))>>
      [] v.t = "array" -> [i \in DOMAIN v.items |-> Entry(ToString(i - 1), v.items[i])]
      [] OTHER -> << >>

\* new Error("Unexpected type: Received JSON ... value for ... Dto field ...").
TypeMismatch(key) == Thrown("TypeMismatch", key)

Skip == [t |-> "skip"]

\* new Error(`Attempted to parse key ${keyToParse} on an object that does not
\* have this key: ${stringify(parsedLossless)}`)
ShapeMismatch(key, envelope) ==
    [t |-> "throws", error |-> "ShapeMismatch", key |-> key, envelope |-> envelope]

RECURSIVE losslessParse(_, _, _)
RECURSIVE parseWithAnnotations(_, _)
RECURSIVE parseArrayWithAnnotations(_, _)
RECURSIVE convertLosslessNumbersToNumberOrThrow(_)
RECURSIVE losslessStringify(_, _)

\* A lookup that never finds a child class.
childClassNever(fieldMetadata) == "undefined"

\* fieldMetadata.type === MetadataKey.CHILD_DTO ? fieldMetadata.class : null
childClassOf(fieldMetadata) ==
    IF fieldMetadata.type = MetadataKey.CHILD_DTO
      THEN fieldMetadata.class
      ELSE "undefined"

\* The body of the loop of parseWithAnnotations for one [key, value]: the
\* value assigned to instance[key], Skip when nothing is assigned, or the
\* error thrown.
parseField(class, key, value) ==
    LET fieldMetadata == getMetadata(Class(class), key)
        childClass == childClassOf(fieldMetadata)
    IN  IF childClass # "undefined"
          THEN IF value.t = "array"
                 THEN LET rs == [i \in DOMAIN value.items |->
                                   losslessParse(stringify(value.items[i]), childClass, "")]
                      IN  FirstThrownOr(rs, Array(rs))
                 ELSE losslessParse(stringify(value), childClass, "")
        ELSE IF fieldMetadata.type = MetadataKey.INT64_STRING_ARRAY
          THEN IF value.t = "array"
                 THEN LET rs == [i \in DOMAIN value.items |->
                                   IF isLosslessNumber(value.items[i])
                                     THEN String(toString(value.items[i]))
                                     ELSE TypeMismatch(key)]
                      IN  FirstThrownOr(rs, Array(rs))
                 ELSE TypeMismatch(key)
        ELSE IF fieldMetadata.type = MetadataKey.INT64_STRING
          THEN IF Truthy(value)
                 THEN IF isLosslessNumber(value)
                        THEN String(toString(value))
                        ELSE TypeMismatch(key)
                 ELSE Skip
        ELSE IF fieldMetadata.type = MetadataKey.INT64_BIGINT_ARRAY
          THEN IF value.t = "array"
                 THEN LET rs == [i \in DOMAIN value.items |->
                                   IF isLosslessNumber(value.items[i])
                                     THEN BigInt(toString(value.items[i]))
                                     ELSE TypeMismatch(key)]
                      IN  FirstThrownOr(rs, Array(rs))
                 ELSE TypeMismatch(key)
        ELSE IF fieldMetadata.type = MetadataKey.INT64_BIGINT
          THEN IF Truthy(value)
                 THEN IF isLosslessNumber(value)
                        THEN BigInt(toString(value))
                        ELSE TypeMismatch(key)
                 ELSE Skip
        ELSE value

parseWithAnnotations(o, class) ==
    IF o.t = "null"
      THEN Thrown("TypeError", "")
      ELSE LET es == OwnEntries(o)
               rs == [i \in DOMAIN es |-> parseField(class, es[i].k, es[i].v)]
               assigned == [i \in DOMAIN es |-> Entry(es[i].k, rs[i])]
           IN  FirstThrownOr(rs, Object(class, SelectSeq(assigned, LAMBDA e : e.v # Skip)))

\* An array parse that keeps only the first element.
parseArrayFirstOnly(doc, class) ==
    LET array == parse(doc)
        rs == [i \in DOMAIN array.items \cap {1} |->
                 losslessParse(stringify(array.items[i]), class, "")]
    IN  FirstThrownOr(rs, Array(rs))

parseArrayWithAnnotations(doc, class) ==
    LET array == parse(doc)
        rs == [i \in DOMAIN array.items |->
                 losslessParse(stringify(array.items[i]), class, "")]
    IN  FirstThrownOr(rs, Array(rs))

\* What convertLosslessNumbersToNumberOrThrow leaves in obj[key].
convertKey(w) ==
    IF w.t = "array"
      THEN LET rs == [i \in DOMAIN w.items |->
                        convertLosslessNumbersToNumberOrThrow(w.items[i])]
           IN  FirstThrownOr(rs, Array(rs))
    ELSE IF isLosslessNumber(w)
      THEN toSafeNumberOrThrow(toString(w))
    ELSE IF IsObjectLike(w)
      THEN convertLosslessNumbersToNumberOrThrow(w)
    ELSE w

convertLosslessNumbersToNumberOrThrow(o) ==
    IF ~Truthy(o) THEN o
    ELSE IF o.t = "LosslessNumber" THEN toSafeNumberOrThrow(o.value)
    ELSE IF o.t \in {"object", "array"}
      THEN LET es == OwnEntries(o)
               rs == [i \in DOMAIN es |-> convertKey(es[i].v)]
               failing == CHOOSE i \in DOMAIN rs :
                            /\ IsThrown(rs[i])
                            /\ \A j \in DOMAIN rs : j < i => ~IsThrown(rs[j])
           IN  IF \E i \in DOMAIN rs : IsThrown(rs[i])
                 THEN Thrown("UnsafeNumber", es[failing].k)
               ELSE IF o.t = "array" THEN Array(rs)
               ELSE Object(o.class, [i \in DOMAIN es |-> Entry(es[i].k, rs[i])])
    ELSE o

losslessParse(doc, class, key) ==
    LET parsedLossless == parse(doc)
    IN  IF key # ""
          THEN IF /\ parsedLossless.t = "object"
                  /\ Has(parsedLossless.entries, key)
                  /\ Truthy(Get(parsedLossless.entries, key))
                 THEN losslessParse(stringify(Get(parsedLossless.entries, key)), class, "")
                 ELSE ShapeMismatch(key, stringify(parsedLossless))
        ELSE IF parsedLossless.t = "array"
          THEN parseArrayWithAnnotations(doc, IF class = "undefined" THEN "LosslessDto" ELSE class)
        ELSE IF class = "undefined"
          THEN convertLosslessNumbersToNumberOrThrow(parsedLossless)
        ELSE LET instance == parseWithAnnotations(parsedLossless, class)
             IN  IF IsThrown(instance)
                   THEN instance
                   ELSE convertLosslessNumbersToNumberOrThrow(instance)

\* The texts lossless-json's isNumber accepts, among those the model uses.
isNumber(text) == text \in Literals

\* new LosslessNumber(value): throws unless value spells a number.
NewLosslessNumber(v) ==
    CASE v.t \in {"string"} /\ isNumber(v.str) -> LosslessNumber(v.str)
      [] v.t = "bigint" -> LosslessNumber(v.big)
      [] v.t = "number" -> LosslessNumber(v.num)
      [] OTHER -> Thrown("InvalidNumber", "")

\* value.toString() of a primitive, as a string value.
PrimitiveToString(v) ==
    CASE v.t = "bigint" -> String(v.big)
      [] v.t = "number" -> String(v.num)
      [] OTHER -> v

\* The body of the loop of losslessStringify for one key of object.
\* A loop body without the Int64String and BigIntValue branches: the value is
\* copied as it is held.
stringifyFieldCopies(object, key, value) ==
    IF IsObjectLike(value)
      THEN losslessStringify(value, FALSE)
      ELSE value

stringifyField(object, key, value) ==
    LET metadata == getMetadata(object, key)
    IN  IF IsObjectLike(value)
          THEN losslessStringify(value, FALSE)
        ELSE IF metadata.type = MetadataKey.INT64_STRING
          THEN NewLosslessNumber(value)
        ELSE IF metadata.type = MetadataKey.INT64_BIGINT
          THEN NewLosslessNumber(PrimitiveToString(value))
        ELSE value

\* A losslessStringify that tests for Date, Map and Set only at the top level.
losslessStringifyTopLevelTest(o, isTopLevel) ==
    IF isTopLevel /\ o.t \in {"Date", "Map", "Set"}
      THEN Thrown("UnsupportedType", "")
      ELSE LET es == OwnEntries(o)
               rs == [i \in DOMAIN es |-> stringifyField(o, es[i].k, es[i].v)]
               newObj == IF o.t = "array"
                           THEN Array(rs)
                           ELSE Object("Object", [i \in DOMAIN es |-> Entry(es[i].k, rs[i])])
               result == FirstThrownOr(rs, newObj)
           IN  IF isTopLevel /\ ~IsThrown(result) THEN stringify(result) ELSE result

losslessStringify(o, isTopLevel) ==
    IF o.t \in {"Date", "Map", "Set"}
      THEN Thrown("UnsupportedType", "")
      ELSE LET es == OwnEntries(o)
               rs == [i \in DOMAIN es |-> stringifyField(o, es[i].k, es[i].v)]
               newObj == IF o.t = "array"
                           THEN Array(rs)
                           ELSE Object("Object", [i \in DOMAIN es |-> Entry(es[i].k, rs[i])])
               result == FirstThrownOr(rs, newObj)
           IN  IF isTopLevel /\ ~IsThrown(result) THEN stringify(result) ELSE result

\* --- the documents and instances explored ---

\* Bound: the longest top-level array, or array under keyToParse, explored.
MaxEnvelopeItems == 2

\* Literals given to the fields of the nested objects.
SmallLiterals == {"7", "9223372036854775807"}
\* Literals given to fields without a directive: the last safe integer and the
\* first unsafe one.
NumberLiterals == {"9007199254740991", "9007199254740993"}

SeqsUpTo(S, n) == UNION {[1..k -> S] : k \in 0..n}

JNums(texts) == [i \in DOMAIN texts |-> JNum(texts[i])]

\* The shapes in which a number sits under the undecorated field n: directly,
\* in an array, in a nested object.
Shapes == {"number", "array", "object"}

Shaped(shape, text) ==
    CASE shape = "number" -> JNum(text)
      [] shape = "array" -> JArr(<<JNum(text)>>)
      [] shape = "object" -> JObj(<<Entry("m", JNum(text))>>)

\* {"key":…, "big":…, "keys":[…], "bigs":[…], "child":{"key":…, "n":…}, "n":…}
DtoDoc(key, big, keys, bigs, childKey, childN, n) ==
    JObj(<<Entry("key", JNum(key)),
           Entry("big", JNum(big)),
           Entry("keys", JArr(JNums(keys))),
           Entry("bigs", JArr(JNums(bigs))),
           Entry("child", JObj(<<Entry("key", JNum(childKey)), Entry("n", JNum(childN))>>)),
           Entry("n", n)>>)

DtoDocs ==
    {DtoDoc(key, big, keys, bigs, childKey, childN, Shaped(shape, n)) :
        key \in Literals, big \in Literals,
        keys \in SeqsUpTo(SmallLiterals, MaxItems),
        bigs \in SeqsUpTo(SmallLiterals, MaxItems),
        childKey \in SmallLiterals, childN \in {"7", "9007199254740993"},
        shape \in Shapes, n \in NumberLiterals}

\* Array and envelope documents are built around these few.
FewDocs ==
    {DtoDoc(key, "7", <<key>>, << >>, "7", "7", JNum(n)) :
        key \in SmallLiterals, n \in NumberLiterals}

\* Bound: the longest array under the ChildDto field explored.
MaxChildren == 2

\* {"key":…, "big":…, "n":…}: a document for class Child.
ChildDoc(key, big, n) ==
    JObj(<<Entry("key", JNum(key)), Entry("big", JNum(big)), Entry("n", JNum(n))>>)

ChildDocs ==
    {ChildDoc(key, big, n) :
        key \in SmallLiterals, big \in SmallLiterals, n \in {"7", "9007199254740993"}}

\* Documents for class Dto whose ChildDto field holds an object with all of
\* Child's fields, or an array of such objects.
ChildFieldDocs ==
    {JObj(<<Entry("key", JNum("7")),
            Entry("big", JNum("7")),
            Entry("keys", JArr(<< >>)),
            Entry("bigs", JArr(<< >>)),
            Entry("child", v),
            Entry("n", JNum("7"))>>) :
        v \in ChildDocs \cup {JArr(cs) : cs \in SeqsUpTo(ChildDocs, MaxChildren)}}

\* JSON values that are not a number, and values that are not an array of
\* numbers.
NotANumber ==
    {JStr("x"), JStr(""), JBool(TRUE), JBool(FALSE), JNull, JObj(<< >>),
     JArr(<<JNum("7")>>)}
NotAnArrayOfNumbers ==
    {JStr("x"), JBool(FALSE), JNull, JObj(<< >>), JNum("7"),
     JArr(<<JStr("7")>>), JArr(<<JNum("7"), JNull>>)}

\* {"key":7, "big":7, "keys":[7], "bigs":[7], "n":7} with the value v under
\* field.
WithField(field, v) ==
    JObj([i \in 1..5 |->
            LET k == <<"key", "big", "keys", "bigs", "n">>[i]
            IN  Entry(k, IF k = field THEN v
                         ELSE IF k \in {"keys", "bigs"} THEN JArr(<<JNum("7")>>)
                         ELSE JNum("7"))])

\* Documents for class Dto in which one field with a directive holds a value
\* of another type than the directive requires.
IllTypedDocs ==
    {WithField(field, v) : field \in {"key", "big"}, v \in NotANumber}
    \cup {WithField(field, v) : field \in {"keys", "bigs"}, v \in NotAnArrayOfNumbers}

ParseInputs ==
    {[json |-> d, dto |-> c, keyToParse |-> ""] :
        d \in DtoDocs, c \in {"Dto", "undefined"}}
    \cup {[json |-> d, dto |-> "Dto", keyToParse |-> ""] : d \in IllTypedDocs}
    \cup {[json |-> d, dto |-> "Dto", keyToParse |-> ""] : d \in ChildFieldDocs}
    \cup {[json |-> JArr(ds), dto |-> c, keyToParse |-> ""] :
        ds \in SeqsUpTo(FewDocs, MaxEnvelopeItems), c \in {"Dto", "undefined"}}
    \cup {[json |-> JObj(<<Entry("total", JNum("7")), Entry("items", v)>>),
           dto |-> c, keyToParse |-> k] :
        v \in {JArr(ds) : ds \in SeqsUpTo(FewDocs, MaxEnvelopeItems)} \cup {JNull},
        c \in {"Dto", "undefined"}, k \in {"items", "jobs"}}

BigIntValues(texts) == [i \in DOMAIN texts |-> BigInt(texts[i])]
Strings(texts) == [i \in DOMAIN texts |-> String(texts[i])]

\* Instances of Dto with every field set to a value of its declared type.
DtoInstances ==
    {Object("Dto",
        <<Entry("key", String(key)),
          Entry("big", BigInt(big)),
          Entry("keys", Array(Strings(keys))),
          Entry("bigs", Array(BigIntValues(bigs))),
          Entry("child", Object("Child", <<Entry("key", String(childKey)),
                                            Entry("big", BigInt(big)),
                                            Entry("n", Number("7"))>>)),
          Entry("n", Number(n))>>) :
        key \in SmallLiterals, big \in SmallLiterals,
        keys \in SeqsUpTo(SmallLiterals, MaxItems),
        bigs \in SeqsUpTo(SmallLiterals, MaxItems),
        childKey \in SmallLiterals, n \in {"7", "9007199254740991"}}

\* Values holding a Date, a Map or a Set: at the top level, under a field of
\* a Dto instance or of a plain object, in an array, and two levels down.
Unsupported == {Date, Map, Set}

UnsupportedInstances ==
    Unsupported
    \cup {Object(class, <<Entry("key", String("7")), Entry("n", v)>>) :
            class \in {"Dto", "Object"},
            v \in Unsupported
                  \cup {Array(<<Number("7"), u>>) : u \in Unsupported}
                  \cup {Object("Object", <<Entry("m", Array(<<u>>))>>) : u \in Unsupported}}
    \cup {Array(<<u>>) : u \in Unsupported}

\* Either a document arrives to be parsed, or the application holds a Dto
\* instance to send.
CodecInit ==
    /\ parsed = None
    /\ \/ /\ obj = None
          /\ \E input \in ParseInputs :
               /\ json = input.json
               /\ dto = input.dto
               /\ keyToParse = input.keyToParse
       \/ /\ obj \in DtoInstances \cup UnsupportedInstances
          /\ json = None
          /\ dto = "Dto"
          /\ keyToParse = ""
    /\ WorkerUnused
    /\ OAuthUnused
    /\ FactoryUnused
    /\ OthersUnused

\* The application calls losslessStringify(obj).
StringifyCall ==
    /\ obj # None
    /\ json = None
    /\ json' = losslessStringify(obj, TRUE)
    /\ UNCHANGED <<obj, dto, keyToParse, parsed>>
    /\ UNCHANGED <<workerVars, oauthVars, factoryVars,
                   audienceVars, providerVars, operateVars, metadataVars>>

\* The application calls losslessParse(json, dto, keyToParse).
ParseCall ==
    /\ json # None
    /\ ~IsThrown(json)
    /\ parsed = None
    /\ parsed' = losslessParse(json, dto, keyToParse)
    /\ UNCHANGED <<obj, json, dto, keyToParse>>
    /\ UNCHANGED <<workerVars, oauthVars, factoryVars,
                   audienceVars, providerVars, operateVars, metadataVars>>

CodecNext ==
    \/ StringifyCall
    \/ ParseCall

SpecCodec == CodecInit /\ [][CodecNext]_vars

----------------------------------------------------------------------------
(* The specialized class factories *)

\* Bound: factory calls explored.
MaxFactoryCalls == 3

\* The shape classes callers pass.  VariablesTwin is a distinct class that
\* declares the same fields as Variables.
VariableShapes == {"Variables", "VariablesTwin", "LosslessDto"}
HeaderShapes == {"CustomHeaders", "LosslessDto"}

\* JSON.stringify of an object literal: a property whose value is a function
\* (a class) is left out.
JSONStringify(entries) ==
    JObj(SelectSeq(entries, LAMBDA e : e.v.t # "function"))

\* const cacheKey = JSON.stringify({ inputVariableDto, customHeadersDto })
jobCacheKey(inputVariableDto, customHeadersDto) ==
    JSONStringify(<<Entry("inputVariableDto", Class(inputVariableDto)),
                    Entry("customHeadersDto", Class(customHeadersDto))>>)

\* const cacheKey = JSON.stringify({ outputVariableDto })
processInstanceCacheKey(outputVariableDto) ==
    JSONStringify(<<Entry("outputVariableDto", Class(outputVariableDto))>>)

\* A factory that forgets to store the class it created.
cacheSetNothing(map, cacheKey, class) == map

\* cache.set(cacheKey, NewRestApiJobClass)
cacheSet(map, cacheKey, class) == With(map, cacheKey, class)

\* One call of a factory as the caller saw it: class is the index in classes
\* of the class returned, 0 when the call threw.
FactoryCall(factory, variables, customHeaders, class) ==
    [factory |-> factory, variables |-> variables,
     customHeaders |-> customHeaders, class |-> class]

\* A class a factory created: the envelope it extends and what
\* Reflect.defineMetadata("child:class", ...) recorded on its prototype.
NewClass(factory, variables, customHeaders) ==
    [factory |-> factory,
     extends |-> IF factory = "job" THEN "RestApiJob" ELSE "CreateProcessInstanceResponse",
     reflectVariables |-> variables,
     reflectCustomHeaders |-> customHeaders]

\* The module is loaded with empty caches; whether reflect-metadata has been
\* loaded by then is not in the factories' hands.
FactoryInit ==
    /\ reflectLoaded \in BOOLEAN
    /\ cache = [job |-> << >>, processInstance |-> << >>]
    /\ classes = << >>
    /\ factoryCalls = << >>
    /\ response = None
    /\ WorkerUnused
    /\ OAuthUnused
    /\ CodecUnused
    /\ OthersUnused

\* The body shared by both factories: return the cached class, or create one,
\* register its metadata (a TypeError when Reflect.defineMetadata is missing,
\* thrown before cache.set) and store it.
Memoized(factory, cacheKey, variables, customHeaders) ==
    /\ Len(factoryCalls) < MaxFactoryCalls
    /\ IF cacheKey \in DOMAIN cache[factory]
         THEN /\ factoryCalls' = Append(factoryCalls,
                    FactoryCall(factory, variables, customHeaders, cache[factory][cacheKey]))
              /\ UNCHANGED <<cache, classes>>
       ELSE IF reflectLoaded
         THEN /\ classes' = Append(classes, NewClass(factory, variables, customHeaders))
              /\ cache' = [cache EXCEPT ![factory] = cacheSet(@, cacheKey, Len(classes) + 1)]
              /\ factoryCalls' = Append(factoryCalls,
                    FactoryCall(factory, variables, customHeaders, Len(classes) + 1))
       ELSE /\ factoryCalls' = Append(factoryCalls,
                    FactoryCall(factory, variables, customHeaders, 0))
            /\ UNCHANGED <<cache, classes>>
    /\ UNCHANGED <<reflectLoaded, response>>
    /\ UNCHANGED <<workerVars, oauthVars, codecVars,
                   audienceVars, providerVars, operateVars, metadataVars>>

createSpecializedRestApiJobClass(inputVariableDto, customHeadersDto) ==
    Memoized("job", jobCacheKey(inputVariableDto, customHeadersDto),
             inputVariableDto, customHeadersDto)

createSpecializedCreateProcessInstanceResponseClass(outputVariableDto) ==
    Memoized("processInstance", processInstanceCacheKey(outputVariableDto),
             outputVariableDto, "none")

\* The name under which the codec sees a class a factory created.
ClassName(c) ==
    IF classes[c].factory = "job"
      THEN "NewRestApiJobClass"
      ELSE "CustomCreateProcessInstanceResponseClass"

\* Values of variables.bigValue in the activation responses explored.
BigValueChoices == {"3", "9223372036854775807"}

\* {"jobs":[{"key":7,"customHeaders":{"bigHeader":1,"smallHeader":2},
\*           "retries":7,"variables":{"bigValue":...}}]}
ActivationResponse(bigValue) ==
    JObj(<<Entry("jobs", JArr(<<
        JObj(<<Entry("key", JNum("7")),
               Entry("customHeaders", JObj(<<Entry("bigHeader", JNum("1")),
                                             Entry("smallHeader", JNum("2"))>>)),
               Entry("retries", JNum("7")),
               Entry("variables", JObj(<<Entry("bigValue", JNum(bigValue))>>))>>)>>))>>)

\* CamundaRestClient.activateJobs: the response is parsed with the class the
\* job factory returned, parseJson: (text) => losslessParse(text, jobDto, "jobs").
parseJson(call, bigValue) ==
    /\ factoryCalls[call].factory = "job"
    /\ factoryCalls[call].class # 0
    /\ response' = [call |-> call,
                    text |-> ActivationResponse(bigValue),
                    parsed |-> losslessParse(ActivationResponse(bigValue),
                                             ClassName(factoryCalls[call].class), "jobs")]
    /\ UNCHANGED <<reflectLoaded, cache, classes, factoryCalls>>
    /\ UNCHANGED <<workerVars, oauthVars, codecVars,
                   audienceVars, providerVars, operateVars, metadataVars>>

FactoryNext ==
    \/ \E v \in VariableShapes, h \in HeaderShapes : createSpecializedRestApiJobClass(v, h)
    \/ \E v \in VariableShapes : createSpecializedCreateProcessInstanceResponseClass(v)
    \/ \E call \in 1..Len(factoryCalls), bigValue \in BigValueChoices : parseJson(call, bigValue)

SpecFactory == FactoryInit /\ [][FactoryNext]_vars

----------------------------------------------------------------------------
(* OAuthProvider: the body of the token request *)

TokenGrantAudienceTypes ==
    {"OPERATE", "ZEEBE", "OPTIMIZE", "TASKLIST", "CONSOLE", "MODELER"}

\* What the constructor reads for the audiences: whether CAMUNDA_OAUTH_URL is
\* the SaaS login URL; CAMUNDA_MODELER_OAUTH_AUDIENCE, which has no default;
\* CAMUNDA_ZEEBE_OAUTH_AUDIENCE, left at its default or set;
\* CAMUNDA_TOKEN_SCOPE.  The other audiences are left at their defaults.
AudienceCases ==
    [isCamundaSaaS : BOOLEAN,
     CAMUNDA_MODELER_OAUTH_AUDIENCE : {"undefined", "", "modeler.local"},
     CAMUNDA_ZEEBE_OAUTH_AUDIENCE : {"zeebe.camunda.io", "zeebe.local"},
     CAMUNDA_TOKEN_SCOPE : {"undefined", "scope"},
     audienceType : TokenGrantAudienceTypes]

\* this.audienceMap, built by the constructor from the configuration and its
\* defaults.
audienceMap ==
    [OPERATE |-> "operate.camunda.io",
     ZEEBE |-> audienceCase.CAMUNDA_ZEEBE_OAUTH_AUDIENCE,
     OPTIMIZE |-> "optimize.camunda.io",
     TASKLIST |-> "tasklist.camunda.io",
     CONSOLE |-> "api.cloud.camunda.io",
     MODELER |-> audienceCase.CAMUNDA_MODELER_OAUTH_AUDIENCE]

\* getAudience(audience): this.audienceMap[audience]
getAudience(audience) == audienceMap[audience]

\* A parameter of the form-encoded body: name=value
Param(name, value) == [name |-> name, value |-> value]

\* !this.camundaModelerOauthAudience: undefined and '' are falsy.
Falsy(string) == string \in {"undefined", ""}

\* A body that always names the configured audience.
addAudienceAlways(audienceType) ==
    <<Param("audience", getAudience(audienceType))>>

\* addAudienceIfNeeded(audienceType): '' , 'audience=api.cloud.camunda.io&' or
\* `audience=${this.getAudience(audienceType)}&`, as the parameters it spells.
addAudienceIfNeeded(audienceType) ==
    IF /\ audienceType = "MODELER"
       /\ ~audienceCase.isCamundaSaaS
       /\ Falsy(audienceCase.CAMUNDA_MODELER_OAUTH_AUDIENCE)
      THEN << >>
    ELSE IF audienceType = "MODELER" /\ audienceCase.isCamundaSaaS
      THEN <<Param("audience", "api.cloud.camunda.io")>>
    ELSE <<Param("audience", getAudience(audienceType))>>

AudienceInit ==
    /\ audienceCase \in AudienceCases
    /\ tokenRequestBody = None
    /\ WorkerUnused
    /\ OAuthUnused
    /\ CodecUnused
    /\ FactoryUnused
    /\ ProviderUnused
    /\ OperateUnused
    /\ MetadataUnused

\* makeDebouncedTokenRequest builds the body of the request:
\* `${addAudienceIfNeeded(audienceType)}client_id=…&client_secret=…&grant_type=client_credentials`
\* followed by `&scope=${this.scope}` when a scope is set.
BuildTokenRequestBody ==
    /\ tokenRequestBody = None
    /\ tokenRequestBody' =
         addAudienceIfNeeded(audienceCase.audienceType)
         \o <<Param("client_id", ClientId),
              Param("client_secret", "secret"),
              Param("grant_type", "client_credentials")>>
         \o IF Falsy(audienceCase.CAMUNDA_TOKEN_SCOPE)
              THEN << >>
              ELSE <<Param("scope", audienceCase.CAMUNDA_TOKEN_SCOPE)>>
    /\ UNCHANGED audienceCase
    /\ UNCHANGED <<workerVars, oauthVars, codecVars, factoryVars,
                   providerVars, operateVars, metadataVars>>

AudienceNext == BuildTokenRequestBody

SpecAudience == AudienceInit /\ [][AudienceNext]_vars


----------------------------------------------------------------------------
(* constructOauthProvider, NullAuthProvider, BasicAuthProvider *)

\* Bound: the getToken calls made on the provider.
MaxTokenCalls == 2

OAuthUrl == "https://login.cloud.camunda.io/oauth/token"

\* The settings the OAuthProvider constructor requires: none of them, or all.
NoOAuthSettings ==
    [CAMUNDA_OAUTH_URL |-> "undefined", ZEEBE_CLIENT_ID |-> "undefined",
     ZEEBE_CLIENT_SECRET |-> "undefined"]
OAuthSettings ==
    [CAMUNDA_OAUTH_URL |-> OAuthUrl, ZEEBE_CLIENT_ID |-> ClientId,
     ZEEBE_CLIENT_SECRET |-> "secret"]

\* The configuration object a client hands to constructOauthProvider (its own
\* options merged over the environment): "undefined" for an absent setting.
SdkClientConfigurations ==
    [CAMUNDA_OAUTH_DISABLED : {"false", "true"},
     CAMUNDA_AUTH_STRATEGY : {"BASIC", "OAUTH", "NONE"},
     CAMUNDA_BASIC_AUTH_USERNAME : {"undefined", "demo", "ab"},
     CAMUNDA_BASIC_AUTH_PASSWORD : {"undefined", "pw", "pass"},
     CAMUNDA_OAUTH_URL : {"undefined", OAuthUrl},
     ZEEBE_CLIENT_ID : {"undefined", ClientId},
     ZEEBE_CLIENT_SECRET : {"undefined", "secret"}]

\* getEnv(): the settings read from the environment variables, with their
\* defaults.  The environment holds the OAuth settings, or none of them.
Environments ==
    {[CAMUNDA_OAUTH_DISABLED |-> "false",
      CAMUNDA_AUTH_STRATEGY |-> "OAUTH",
      CAMUNDA_BASIC_AUTH_USERNAME |-> "undefined",
      CAMUNDA_BASIC_AUTH_PASSWORD |-> "undefined",
      CAMUNDA_OAUTH_URL |-> o.CAMUNDA_OAUTH_URL,
      ZEEBE_CLIENT_ID |-> o.ZEEBE_CLIENT_ID,
      ZEEBE_CLIENT_SECRET |-> o.ZEEBE_CLIENT_SECRET] :
        o \in {NoOAuthSettings, OAuthSettings}}

\* The empty configuration object {}.
EmptyConfiguration ==
    [k \in DOMAIN NoOAuthSettings |-> "undefined"]

\* mergeConfigWithEnvironment(config): {...getEnv(), ...config}
mergeConfigWithEnvironment(configuration) ==
    [k \in DOMAIN sdkConfig.env |->
        IF k \in DOMAIN configuration /\ configuration[k] # "undefined"
          THEN configuration[k]
          ELSE sdkConfig.env[k]]

\* The UTF-8 bytes of the strings used as credentials.
Utf8(string) ==
    CASE string = "demo" -> <<100, 101, 109, 111>>
      [] string = "ab" -> <<97, 98>>
      [] string = "pw" -> <<112, 119>>
      [] string = "pass" -> <<112, 97, 115, 115>>

\* The base64 alphabet, then the padding character.
Base64Alphabet ==
    <<"A", "B", "C", "D", "E", "F", "G", "H", "I", "J", "K", "L", "M",
      "N", "O", "P", "Q", "R", "S", "T", "U", "V", "W", "X", "Y", "Z",
      "a", "b", "c", "d", "e", "f", "g", "h", "i", "j", "k", "l", "m",
      "n", "o", "p", "q", "r", "s", "t", "u", "v", "w", "x", "y", "z",
      "0", "1", "2", "3", "4", "5", "6", "7", "8", "9", "+", "/", "=">>

RECURSIVE Sextets(_)
\* Three bytes make four 6-bit digits; a last group of one or two bytes is
\* filled with zero bits and padded (digit 64).
Sextets(bytes) ==
    IF Len(bytes) = 0 THEN << >>
    ELSE IF Len(bytes) = 1
      THEN <<bytes[1] \div 4, (bytes[1] % 4) * 16, 64, 64>>
    ELSE IF Len(bytes) = 2
      THEN <<bytes[1] \div 4,
             (bytes[1] % 4) * 16 + bytes[2] \div 16,
             (bytes[2] % 16) * 4,
             64>>
    ELSE <<bytes[1] \div 4,
           (bytes[1] % 4) * 16 + bytes[2] \div 16,
           (bytes[2] % 16) * 4 + bytes[3] \div 64,
           bytes[3] % 64>>
         \o Sextets(SubSeq(bytes, 4, Len(bytes)))

\* encodeBase64 of a byte string, as the sequence of its characters.
encodeBase64(bytes) ==
    LET digits == Sextets(bytes)
    IN  [i \in DOMAIN digits |-> Base64Alphabet[digits[i] + 1]]

\* new NullAuthProvider()
NullAuthProvider == [t |-> "NullAuthProvider"]

\* new BasicAuthProvider(options): the configuration is options.config merged
\* over the environment; both credentials are required.
BasicAuthProvider(options) ==
    LET merged == mergeConfigWithEnvironment(options.config)
        username == requireConfiguration(merged.CAMUNDA_BASIC_AUTH_USERNAME,
                                         "CAMUNDA_BASIC_AUTH_USERNAME")
        password == requireConfiguration(merged.CAMUNDA_BASIC_AUTH_PASSWORD,
                                         "CAMUNDA_BASIC_AUTH_PASSWORD")
    IN  IF username.t = "throws" THEN username
        ELSE IF password.t = "throws" THEN password
        ELSE [t |-> "BasicAuthProvider",
              username |-> username.value, password |-> password.value]

\* new OAuthProvider(options): the constructor takes its settings from
\* options.configuration ({} when the options have no such property) merged
\* over the environment, requires CAMUNDA_OAUTH_URL, and a client id with its
\* secret.
NewOAuthProvider(options) ==
    LET configuration == IF "configuration" \in DOMAIN options
                           THEN options.configuration
                           ELSE EmptyConfiguration
        merged == mergeConfigWithEnvironment(configuration)
        authServerUrl == requireConfiguration(merged.CAMUNDA_OAUTH_URL,
                                              "CAMUNDA_OAUTH_URL")
    IN  IF authServerUrl.t = "throws" THEN authServerUrl
        ELSE IF merged.ZEEBE_CLIENT_ID = "undefined"
          THEN Thrown("Error", "ZEEBE_CLIENT_ID")
        ELSE IF merged.ZEEBE_CLIENT_SECRET = "undefined"
          THEN Thrown("Error", "ZEEBE_CLIENT_SECRET")
        ELSE [t |-> "OAuthProvider",
              authServerUrl |-> authServerUrl.value,
              clientId |-> merged.ZEEBE_CLIENT_ID]

\* constructOauthProvider(options): no provider when auth is disabled, the
\* static-credential provider for BASIC, the OAuth provider otherwise; each
\* constructor is handed the options as they came.
constructOauthProvider(options) ==
    IF \/ options.config.CAMUNDA_OAUTH_DISABLED = "true"
       \/ options.config.CAMUNDA_AUTH_STRATEGY = "NONE"
      THEN NullAuthProvider
    ELSE IF options.config.CAMUNDA_AUTH_STRATEGY = "BASIC"
      THEN BasicAuthProvider(options)
    ELSE NewOAuthProvider(options)

ProviderInit ==
    /\ sdkConfig \in [config : SdkClientConfigurations, env : Environments]
    /\ authProvider = None
    /\ tokens = << >>
    /\ WorkerUnused
    /\ OAuthUnused
    /\ CodecUnused
    /\ FactoryUnused
    /\ AudienceUnused
    /\ OperateUnused
    /\ MetadataUnused

\* A client's constructor calls constructOauthProvider({config, rest}).
ConstructProvider ==
    /\ authProvider = None
    /\ authProvider' = constructOauthProvider([config |-> sdkConfig.config, rest |-> "ky"])
    /\ UNCHANGED <<sdkConfig, tokens>>
    /\ UNCHANGED <<workerVars, oauthVars, codecVars, factoryVars,
                   audienceVars, operateVars, metadataVars>>

\* getToken(audience) of the NullAuthProvider resolves to '', that of the
\* BasicAuthProvider to encodeBase64(`${this.username}:${this.password}`).
\* (getToken of the OAuthProvider is the subject of SpecOAuth.)
ProviderGetToken(audience) ==
    /\ authProvider.t \in {"NullAuthProvider", "BasicAuthProvider"}
    /\ Len(tokens) < MaxTokenCalls
    /\ tokens' = Append(tokens,
         [audience |-> audience,
          token |-> IF authProvider.t = "NullAuthProvider"
                      THEN << >>
                      ELSE encodeBase64(Utf8(authProvider.username) \o <<58>>
                                        \o Utf8(authProvider.password))])
    /\ UNCHANGED <<sdkConfig, authProvider>>
    /\ UNCHANGED <<workerVars, oauthVars, codecVars, factoryVars,
                   audienceVars, operateVars, metadataVars>>

ProviderNext ==
    \/ ConstructProvider
    \/ \E audience \in TokenGrantAudienceTypes : ProviderGetToken(audience)

SpecProvider == ProviderInit /\ [][ProviderNext]_vars


----------------------------------------------------------------------------
(* OperateApiClient.addTenantIdToFilter *)

\* The filters of the queries explored: none, null, empty, with and without
\* a tenantId key (one of them holding undefined under it).
QueryFilters ==
    {None, Null,
     Object("Object", << >>),
     Object("Object", <<Entry("id", Number("3"))>>),
     Object("Object", <<Entry("tenantId", String("green"))>>),
     Object("Object", <<Entry("id", Number("3")), Entry("tenantId", None)>>),
     Object("Object", <<Entry("tenantId", String("green")), Entry("id", Number("3"))>>)}

\* A query: { filter?, size? }
Query(filter, size) ==
    Object("Object",
        (IF filter = None THEN << >> ELSE <<Entry("filter", filter)>>)
        \o (IF size = None THEN << >> ELSE <<Entry("size", size)>>))

Queries == {Query(filter, size) : filter \in QueryFilters, size \in {None, Number("10")}}

\* CAMUNDA_TENANT_ID of the client, and the tenantId argument of a call: None
\* when not set, or not passed.
TenantIds == {None, String(""), String("red5")}
TenantIdArguments == {None, String(""), String("tenantId")}

\* object[key], undefined when the object has no such property.
Property(object, key) ==
    IF object.t = "object" /\ Has(object.entries, key)
      THEN Get(object.entries, key)
      ELSE None

\* {...value}: the own enumerable properties; nothing for undefined and null.
Spread(value) == IF value.t = "object" THEN value.entries ELSE << >>

\* { ...entries, [key]: value }: an existing property keeps its place and
\* takes the value, a new one comes last.
WithProperty(entries, key, value) ==
    IF Has(entries, key)
      THEN [i \in DOMAIN entries |->
              IF entries[i].k = key THEN Entry(key, value) ELSE entries[i]]
      ELSE Append(entries, Entry(key, value))

\* An addTenantIdToFilter without the test for a tenantId in the filter.
addTenantIdToFilterAlways(query, tenantIdArgument) ==
    LET tenantId == IF tenantIdArgument = None
                      THEN operateConfig.CAMUNDA_TENANT_ID
                      ELSE tenantIdArgument
    IN  Object("Object",
            WithProperty(Spread(query), "filter",
                Object("Object",
                    WithProperty(Spread(Property(query, "filter")), "tenantId", tenantId))))

\* addTenantIdToFilter(query, tenantId = this.tenantId)
addTenantIdToFilter(query, tenantIdArgument) ==
    LET tenantId == IF tenantIdArgument = None
                      THEN operateConfig.CAMUNDA_TENANT_ID
                      ELSE tenantIdArgument
        filter == Property(query, "filter")
        hasTenantIdInFilter == Truthy(filter) /\ Has(filter.entries, "tenantId")
    IN  IF hasTenantIdInFilter
          THEN query
          ELSE Object("Object",
                   WithProperty(Spread(query), "filter",
                       Object("Object",
                           WithProperty(Spread(filter), "tenantId", tenantId))))

\* The client is constructed: this.tenantId = configuration.CAMUNDA_TENANT_ID.
OperateInit ==
    /\ operateConfig \in [CAMUNDA_TENANT_ID : TenantIds]
    /\ queryCall \in [query : Queries, tenantId : TenantIdArguments]
    /\ enhancedQuery = None
    /\ WorkerUnused
    /\ OAuthUnused
    /\ CodecUnused
    /\ FactoryUnused
    /\ AudienceUnused
    /\ ProviderUnused
    /\ MetadataUnused

\* A search method calls this.addTenantIdToFilter(query[, tenantId]).
AddTenantIdToFilterCall ==
    /\ enhancedQuery = None
    /\ enhancedQuery' = addTenantIdToFilter(queryCall.query, queryCall.tenantId)
    /\ UNCHANGED <<operateConfig, queryCall>>
    /\ UNCHANGED <<workerVars, oauthVars, codecVars, factoryVars,
                   audienceVars, providerVars, metadataVars>>

OperateNext == AddTenantIdToFilterCall

SpecOperate == OperateInit /\ [][OperateNext]_vars


----------------------------------------------------------------------------
(* getMetadata on a class and on its instances *)

\* The classes looked up: four with decorated fields, and LosslessDto.
MetadataClasses == {"Dto", "Child", "RestApiJob", "CustomHeaders", "LosslessDto"}

\* The field names looked up.
MetadataKeys == {"key", "big", "child", "bigHeader", "smallHeader", "n"}

\* The documents an instance is parsed from: {"key":7,"n":7}, and the same
\* with a member named constructor that holds a string, null, or an object
\* with a name.
MetadataDocs ==
    {JObj(<<Entry("key", JNum("7")), Entry("n", JNum("7"))>>)}
    \cup {JObj(<<Entry("key", JNum("7")), Entry("n", JNum("7")), Entry("constructor", v)>>) :
            v \in {JStr("x"), JNull, JObj(<<Entry("name", JStr("Function"))>>)}}

\* The targets of a lookup: the class, new class(), and the instances that
\* losslessParse makes of the documents.
MetadataTargets ==
    {Class(class) : class \in MetadataClasses}
    \cup {Object(class, << >>) : class \in MetadataClasses}
    \cup {losslessParse(doc, class, "") : doc \in MetadataDocs, class \in MetadataClasses}

MetadataInit ==
    /\ metadataTarget \in MetadataTargets
    /\ metadataKey \in MetadataKeys
    /\ metadataFound = None
    /\ WorkerUnused
    /\ OAuthUnused
    /\ CodecUnused
    /\ FactoryUnused
    /\ AudienceUnused
    /\ ProviderUnused
    /\ OperateUnused

\* getMetadata(target, key) is called.
GetMetadataCall ==
    /\ metadataFound = None
    /\ metadataFound' = getMetadata(metadataTarget, metadataKey)
    /\ UNCHANGED <<metadataTarget, metadataKey>>
    /\ UNCHANGED <<workerVars, oauthVars, codecVars, factoryVars,
                   audienceVars, providerVars, operateVars>>

MetadataNext == GetMetadataCall

SpecMetadata == MetadataInit /\ [][MetadataNext]_vars


----------------------------------------------------------------------------
(* Claims about the Job Worker, checked under SpecWorker *)

\* C1: on a worker started once, currentlyActiveJobCount stays within
\* [0, maxJobsToActivate] whatever the interleaving of poll ticks, activation
\* responses (each with at most the number of jobs asked for) and handler
\* settlements.
C1_CapacityNeverExceeded ==
    starts <= 1 =>
        /\ currentlyActiveJobCount >= 0
        /\ currentlyActiveJobCount <= config.maxJobsToActivate

\* C4: currentlyActiveJobCount equals the number of activated jobs whose
\* handleJob has not finished, in every state, and no step of a stop() call
\* (the call, a drain check, the deadline) touches a job or the count.
C4_CountIsUnfinishedJobs ==
    /\ [](currentlyActiveJobCount = Cardinality(Unfinished))
    /\ [][stopCall' # stopCall =>
            /\ jobs' = jobs
            /\ currentlyActiveJobCount' = currentlyActiveJobCount]_vars

\* C4 witness: one job finished through a rejected job.fail, another still in
\* its handler, after a stop() that rejected.
C4_Witness ==
    /\ stopCall.phase = "rejected"
    /\ currentlyActiveJobCount = 1
    /\ \E j \in 1..Len(jobs) : jobs[j].st = "done" /\ jobs[j].failOutcome = "rejected"
    /\ \E j \in 1..Len(jobs) : jobs[j].st = "handler"

\* C5: stop(deadlineMs) emits 'stop' and resolves at once when nothing is
\* active; otherwise it resolves, emitting 'stop', only with the count at
\* zero, and it rejects if and only if the count has not reached zero by the
\* deadline: it never rejects at a moment when the count is zero.
C5_RejectsIffNotDrained ==
    [][/\ (stopCall.phase # "waiting" /\ stopCall' # stopCall) =>
            IF currentlyActiveJobCount = 0
              THEN stopCall'.phase = "resolved" /\ stopCall'.emittedStop
              ELSE stopCall'.phase = "waiting"
       /\ (stopCall.phase = "waiting" /\ stopCall'.phase = "resolved") =>
            currentlyActiveJobCount = 0 /\ stopCall'.emittedStop
       /\ (stopCall.phase = "waiting" /\ stopCall'.phase = "rejected") =>
            currentlyActiveJobCount # 0]_vars

\* C6: a job whose handler threw or rejected, with any value, has had job.fail
\* called exactly once, with retries = job.retries - 1; a job whose handler
\* has not thrown has had no job.fail call.
C6_FailCalledOncePerThrow ==
    \A j \in 1..Len(jobs) :
        IF jobs[j].thrown # "none"
          THEN /\ jobs[j].failCalls = 1
               /\ jobs[j].failRetries = jobs[j].retries - 1
          ELSE jobs[j].failCalls = 0

\* C18: a stop() on a worker started once leaves no poll timer; and while
\* there is no poll timer, only a start() makes a poll run, issues an
\* activation request or creates a timer.
C18_NoPollAfterStop ==
    [][/\ ((\E d \in DeadlineChoices : stop(d)) /\ starts = 1) => intervals' = {}
       /\ (intervals = {} /\ starts' = starts) =>
            /\ intervals' = {}
            /\ emitted'.poll = emitted.poll
            /\ \A want \in Wants : activations'[want] <= activations[want]]_vars

\* C18 witness: a worker started once and polling was stopped while a job was
\* running; it has no poll timer left.
C18_Witness ==
    /\ starts = 1
    /\ stopCall.phase = "waiting"
    /\ currentlyActiveJobCount > 0
    /\ emitted.poll >= 2
    /\ intervals = {}

\* C19: once the promise of the latest stop() has resolved and no start() has
\* followed, the active count stays 0 and no job handler is invoked.
C19_StoppedStaysIdle ==
    [][(intervals = {} /\ stopCall.phase = "resolved" /\ starts' = starts) =>
            /\ currentlyActiveJobCount' = 0
            /\ Len(jobs') = Len(jobs)]_vars

\* C20: every poll() run (one more 'poll' emitted) issues one activation
\* request exactly when currentlyActiveJobCount < maxJobsToActivate, for
\* maxJobsToActivate - currentlyActiveJobCount jobs, a number in
\* 1..maxJobsToActivate; at capacity it issues none.
C20_PollAsksForRemainingCapacity ==
    [][emitted'.poll > emitted.poll =>
         LET remainingJobCapacity == config.maxJobsToActivate - currentlyActiveJobCount
         IN  /\ emitted'.poll = emitted.poll + 1
             /\ IF currentlyActiveJobCount < config.maxJobsToActivate
                  THEN /\ remainingJobCapacity \in 1..config.maxJobsToActivate
                       /\ activations'[remainingJobCapacity] =
                              activations[remainingJobCapacity] + 1
                       /\ \A want \in Wants \ {remainingJobCapacity} :
                              activations'[want] = activations[want]
                  ELSE activations' = activations]_vars

\* C20 witness: with maxJobsToActivate = 2 a poll tick found one job running
\* and asked for one more; that request is outstanding while the job still
\* runs.
C20_Witness ==
    /\ config.maxJobsToActivate = 2
    /\ emitted.poll >= 2
    /\ activations[1] >= 1
    /\ currentlyActiveJobCount = 1
    /\ \E j \in 1..Len(jobs) : jobs[j].st = "handler"

\* C21: a step that emits 'pollError' answers one outstanding activation
\* request and issues none, emits one 'pollError' and no 'poll', leaves
\* currentlyActiveJobCount and the jobs as they were (no handler starts) and
\* leaves every poll timer armed.
C21_PollErrorLeavesWorkerPolling ==
    [][emitted'.pollError > emitted.pollError =>
         /\ emitted' = [emitted EXCEPT !.pollError = @ + 1]
         /\ \E want \in Wants :
              /\ activations[want] > 0
              /\ activations' = [activations EXCEPT ![want] = @ - 1]
         /\ currentlyActiveJobCount' = currentlyActiveJobCount
         /\ jobs' = jobs
         /\ intervals' = intervals
         /\ loopHandle' = loopHandle]_vars

\* C21 witness: on a worker started once, the only activation request so far
\* failed; the count is 0, no job was handed out, the poll timer is armed and a
\* later tick has issued the next request.
C21_Witness ==
    /\ starts = 1
    /\ emitted.pollError = 1
    /\ emitted.poll = 2
    /\ currentlyActiveJobCount = 0
    /\ jobs = << >>
    /\ intervals = {loopHandle}
    /\ \E want \in Wants : activations[want] = 1

\* The promise handleJob returned for job j: pending until finally has run;
\* rejected when the catch block itself threw, that is when
\* (error as Error).toString() threw or the awaited job.fail rejected.
handleJobPromise(j) ==
    IF jobs[j].st # "done" THEN "pending"
    ELSE IF jobs[j].failOutcome = "rejected" THEN "rejected"
    ELSE IF jobs[j].thrown # "none" /\ ~CanStringify(jobs[j].thrown) THEN "rejected"
    ELSE "fulfilled"

\* C25: the promise of handleJob never rejects, whatever the handler and the
\* automatic job.fail call do.
C25_HandleJobNeverRejects ==
    \A j \in 1..Len(jobs) : handleJobPromise(j) # "rejected"

\* C28: every start() adds a poll timer to those already running and keeps
\* its handle as the only one retained; a step that removes timers (stop)
\* removes just the retained one, so a timer of an earlier start() stays.
C28_SecondStartSecondTimer ==
    [][/\ starts' = starts + 1 =>
            /\ loopHandle' \notin intervals
            /\ intervals' = intervals \cup {loopHandle'}
       /\ starts' = starts =>
            /\ loopHandle' = loopHandle
            /\ intervals' \in {intervals, intervals \ {loopHandle}}
       /\ (\E d \in DeadlineChoices : stop(d)) =>
            intervals' = intervals \ {loopHandle}]_vars

\* C28 witness: a worker that auto-started was started again and then
\* stopped once (the stop has resolved); the timer of the first start() is
\* still running and the retained handle is the cleared one.
C28_Witness ==
    /\ autoStartRequested
    /\ starts = 2
    /\ stopCall.phase = "resolved"
    /\ intervals = {1}
    /\ loopHandle = 2
    /\ emitted.poll = 3

\* C29: a pending stop() settles, whatever the job handlers do; every drain
\* check that ran was due no later than the deadline; a call has resolved
\* exactly when it has emitted 'stop', so a rejected call has not; and a
\* settled call stays as it settled (it neither settles nor emits again)
\* until stop() is called anew.
C29_StopSettlesOnce ==
    /\ (stopCall.phase = "waiting") ~> (stopCall.phase \in {"resolved", "rejected"})
    /\ [](/\ stopCall.checks * DrainCheckIntervalMs <= stopCall.deadlineMs
          /\ stopCall.emittedStop <=> stopCall.phase = "resolved")
    /\ [][/\ stopCall.phase \in {"resolved", "rejected"} =>
               \/ stopCall' = stopCall
               \/ \E d \in DeadlineChoices : stop(d)
          /\ stopCall.phase = "waiting" =>
               /\ stopCall'.deadlineMs = stopCall.deadlineMs
               /\ stopCall'.checks \in {stopCall.checks, stopCall.checks + 1}]_vars

\* C29 witness: a stop(700) called while a job was running was rejected by
\* its deadline after one drain check, the handler still not settled, and no
\* 'stop' was emitted.
C29_Witness ==
    /\ stopCall.phase = "rejected"
    /\ stopCall.deadlineMs = 700
    /\ stopCall.checks = 1
    /\ ~stopCall.emittedStop
    /\ \E j \in 1..Len(jobs) : jobs[j].st = "handler"

\* C31: a worker constructed with autoStart omitted or true has, at
\* construction, emitted 'start' once, polled once, its first activation
\* request outstanding and its poll timer armed; a worker constructed with
\* autoStart false has polled nothing, requested nothing and armed nothing
\* for as long as start() has not been called.
C31_AutoStartPollsAtConstruction ==
    /\ config.autoStart # "false" =>
           /\ emitted.start = 1
           /\ emitted.poll = 1
           /\ activations = [NoActivations EXCEPT ![config.maxJobsToActivate] = 1]
           /\ intervals = {loopHandle}
           /\ starts = 1
    /\ [](config.autoStart = "false" /\ starts = 0 =>
              /\ emitted.start = 0
              /\ emitted.poll = 0
              /\ activations = NoActivations
              /\ jobs = <<>>
              /\ intervals = {})

\* C31 witness: a worker constructed without the autoStart option is running
\* a job it got from the poll of its construction, no timer tick and no
\* start() call having polled since.
C31_Witness ==
    /\ config.autoStart = "undefined"
    /\ starts = 1
    /\ emitted.start = 1
    /\ emitted.poll = 1
    /\ Len(jobs) >= 1
    /\ jobs[1].st = "handler"

----------------------------------------------------------------------------
(* Claims about the OAuth provider, checked under SpecOAuth *)

\* C2: getToken calls that miss the caches and are made with no token-endpoint
\* response between them share one promise, hence one request and one result;
\* a promise posts at most one request, and at most one request is outstanding
\* at any time.
C2_OneRequestPerBurst ==
    /\ Cardinality(Outstanding) <= 1
    /\ \A p \in 1..Len(promises) : promises[p].sent <= 1
    /\ \A c1, c2 \in 1..Len(calls) :
         (/\ calls[c1].via = "request"
          /\ calls[c2].via = "request"
          /\ calls[c1].responsesBefore = calls[c2].responsesBefore)
         => /\ calls[c1].promise = calls[c2].promise
            /\ calls[c1].status = calls[c2].status
            /\ calls[c1].result = calls[c2].result

\* C2 witness: three calls joined to one promise, which posted one request,
\* and all resolved with its token.
C2_Witness ==
    /\ Len(calls) >= 3
    /\ \A c \in 1..3 :
         /\ calls[c].promise = 1
         /\ calls[c].status = "resolved"
         /\ calls[c].result.serial = 1
    /\ promises[1].sent = 1

\* C3: every access token a getToken(audienceType) call resolves with was
\* issued for audienceType.
C3_TokenIssuedForAudience ==
    \A c \in 1..Len(calls) :
        calls[c].status = "resolved" => calls[c].result.aud = calls[c].audience

\* C7: a getToken call is served from the memory cache exactly when the entry
\* exists and clock < expiry * 1000 - refreshWindow, and then nothing else
\* changes; an entry at or past that instant is evicted by the call and, with
\* no valid persistent entry and no promise held, the call creates one promise
\* for its audience, which posts at most one request.
C7_ExpiryTriggeredRenewal ==
    /\ [](\A p \in 1..Len(promises) : promises[p].sent <= 1)
    /\ [][Len(calls') = Len(calls) + 1 =>
            LET c == calls'[Len(calls')]
                key == getCacheKey(c.audience)
                pkey == <<clientIdToUse(c.audience), c.audience>>
                hit == key \in DOMAIN tokenCache
                valid == hit /\ clock < tokenCache[key].expiry * 1000
                                          - oauthConfig.refreshWindow
                fileValid == /\ oauthConfig.persistent
                             /\ pkey \in DOMAIN persistentCache
                             /\ clock < persistentCache[pkey].expiry * 1000
                                          - oauthConfig.refreshWindow
            IN  /\ (c.via = "memory") <=> valid
                /\ valid => /\ c.status = "resolved"
                            /\ c.result = tokenCache[key].access_token
                            /\ promises' = promises
                            /\ inflightTokenRequest' = inflightTokenRequest
                            /\ tokenCache' = tokenCache
                /\ (hit /\ ~valid) =>
                     /\ key \notin DOMAIN tokenCache'
                     /\ (~fileValid /\ inflightTokenRequest = 0) =>
                          /\ Len(promises') = Len(promises) + 1
                          /\ inflightTokenRequest' = Len(promises')
                          /\ c.promise = Len(promises')
                          /\ promises'[Len(promises')].audienceType = c.audience
                          /\ promises'[Len(promises')].phase = "scheduled"]_vars

\* C7 witness: a token with an exp claim was cached for an audience, a later
\* call for that audience found it past expiry - refreshWindow, evicted it and
\* created a fresh promise.
C7_Witness ==
    /\ Len(promises) >= 2
    /\ Len(calls) >= 2
    /\ LET c == calls[Len(calls)]
           p == Len(promises)
       IN  /\ c.via = "request"
           /\ c.promise = p
           /\ promises[p].phase = "scheduled"
           /\ promises[p].audienceType = c.audience
           /\ getCacheKey(c.audience) \notin DOMAIN tokenCache
           /\ \E q \in 1..(p - 1) :
                /\ promises[q].phase = "resolved"
                /\ promises[q].audienceType = c.audience
                /\ \E d \in 1..Len(calls) :
                     /\ calls[d].promise = q
                     /\ calls[d].result.exp # NoExp
                     /\ clock >= calls[d].result.exp * 1000 - oauthConfig.refreshWindow

\* The failed token requests since the last successful one.
FailuresSince(n) ==
    {q \in 1..n : /\ promises[q].phase = "rejected"
                  /\ \A r \in q..n : promises[r].phase # "resolved"}

\* C15: every token request is created with a delay of 1000 ms times the
\* number of consecutive failed requests before it (0 after construction and
\* after a success) and is not sent before that delay has passed; failureCount
\* is that number, and failed is true exactly when failureCount > 0.
C15_LinearBackoff ==
    /\ failed <=> failureCount > 0
    /\ failureCount = Cardinality(FailuresSince(Len(promises)))
    /\ \A p \in 1..Len(promises) :
         /\ promises[p].delay =
                backoffTokenEndpointFailure * Cardinality(FailuresSince(p - 1))
         /\ promises[p].sent > 0 => clock >= promises[p].due

\* C15 witness: a request failed, the next was delayed by 1000 ms, sent and
\* answered with a token, and the request after it was created without delay.
C15_Witness ==
    /\ Len(promises) = 3
    /\ promises[1].phase = "rejected"
    /\ promises[2].phase = "resolved"
    /\ promises[2].delay = backoffTokenEndpointFailure
    /\ promises[3].delay = 0
    /\ failureCount = 0

\* The getToken calls joined to token request p.
Joined(p) == {c \in 1..Len(calls) : calls[c].promise = p}

\* The token requests whose timer is armed or whose answer is awaited.
Pending == {p \in 1..Len(promises) : promises[p].phase \in {"scheduled", "outstanding"}}

\* C16: when a token request fails, every getToken call joined to it rejects
\* in that step, neither cache changes, and no request is armed or outstanding
\* afterwards; a request is posted at most once, and only a getToken step
\* creates one.
C16_FailureRejectsAllNoRetry ==
    [][/\ \A p \in 1..Len(promises) :
            /\ promises[p].sent <= 1
            /\ promises'[p].sent >= promises[p].sent
            /\ promises[p].phase = "rejected" =>
                    promises'[p] = promises[p]
            /\ (promises[p].phase # "rejected" /\ promises'[p].phase = "rejected") =>
                    /\ promises[p].phase = "outstanding"
                    /\ \A c \in Joined(p) :
                         /\ calls[c].status = "pending"
                         /\ calls'[c].status = "rejected"
                         /\ calls'[c].result = NoJwt
                    /\ tokenCache' = tokenCache
                    /\ persistentCache' = persistentCache
                    /\ Pending' = {}
                    /\ Len(promises') = Len(promises)
       /\ Len(promises') > Len(promises) =>
            /\ Len(calls') = Len(calls) + 1
            /\ calls'[Len(calls')].promise = Len(promises')
            /\ Len(promises') = Len(promises) + 1]_vars

\* C16 witness: two getToken calls joined one request, it failed, both calls
\* are rejected, nothing is cached and no request is armed or outstanding.
C16_Witness ==
    /\ Len(promises) = 1
    /\ promises[1].phase = "rejected"
    /\ promises[1].sent = 1
    /\ Cardinality(Joined(1)) = 2
    /\ \A c \in Joined(1) : calls[c].status = "rejected"
    /\ tokenCache = << >>
    /\ persistentCache = << >>
    /\ Pending = {}

\* C17: the gate holds exactly the one request that is scheduled or
\* outstanding and is empty once it has settled, by success or failure; so a
\* getToken that goes to the endpoint never joins a settled request, and
\* creates a new one whenever none is pending.
C17_GateClearedOnSettlement ==
    [][/\ Pending = IF inflightTokenRequest = 0 THEN {} ELSE {inflightTokenRequest}
       /\ Pending' = IF inflightTokenRequest' = 0 THEN {} ELSE {inflightTokenRequest'}
       /\ \A p \in 1..Len(promises) :
            (p \in Pending /\ p \notin Pending') => inflightTokenRequest' = 0
       /\ Len(calls') > Len(calls) =>
            LET c == calls'[Len(calls')] IN
            c.via = "request" =>
                /\ c.status = "pending"
                /\ c.promise \in Pending'
                /\ Pending = {} => (c.promise = Len(promises) + 1 /\
                                     promises'[c.promise].sent = 0)]_vars

\* C17 witness: one request failed and the next succeeded; a later getToken
\* that found no valid cached token started a third request, now in the gate.
C17_Witness ==
    /\ Len(promises) = 3
    /\ promises[1].phase = "rejected"
    /\ promises[2].phase = "resolved"
    /\ promises[3].phase = "scheduled"
    /\ inflightTokenRequest = 3
    /\ calls[Len(calls)].promise = 3
    /\ calls[Len(calls)].status = "pending"

Valid(token, time) == time < token.expiry * 1000 - oauthConfig.refreshWindow

C27_DurableCacheLookup ==
    [][Len(calls') > Len(calls) =>
         LET c == calls'[Len(calls')]
             key == getCacheKey(c.audience)
             console == oauthConfig.isCamundaSaaS /\ c.audience \in {"CONSOLE", "MODELER"}
             pkey == <<IF console THEN ConsoleClientId ELSE ClientId, c.audience>>
             memValid == key \in DOMAIN tokenCache /\ Valid(tokenCache[key], clock)
             found == oauthConfig.persistent /\ pkey \in DOMAIN persistentCache
         IN  /\ (c.via = "durable") <=>
                    (c.via # "config" /\ ~memValid /\ found
                        /\ Valid(persistentCache[pkey], clock))
             /\ c.via = "durable" =>
                    /\ c.status = "resolved"
                    /\ c.result = persistentCache[pkey].access_token
                    /\ c.promise = 0
                    /\ promises' = promises
                    /\ inflightTokenRequest' = inflightTokenRequest
                    /\ persistentCache' = persistentCache
             /\ c.via = "request" =>
                    /\ c.promise = inflightTokenRequest'
                    /\ c.promise # 0
                    /\ persistentCache' = IF found THEN Without(persistentCache, pkey)
                                                   ELSE persistentCache
             /\ c.via \in {"memory", "config"} => persistentCache' = persistentCache]_vars

\* C27 witness: on Camunda SaaS with a durable cache, the CONSOLE token was
\* flushed from the memory cache and the next call for CONSOLE was served from
\* the durable entry kept under the console client id; one request was made.
C27_Witness ==
    /\ oauthConfig.isCamundaSaaS
    /\ oauthConfig.persistent
    /\ Len(calls) = 2
    /\ Len(promises) = 1
    /\ calls[2].audience = "CONSOLE"
    /\ calls[2].via = "durable"
    /\ calls[2].status = "resolved"
    /\ calls[2].result = calls[1].result
    /\ <<ConsoleClientId, "CONSOLE">> \in DOMAIN persistentCache
    /\ tokenCache = << >>

\* C30: every memory-cache entry sits under the key of the audience its token
\* names and carries as expiry the exp claim of its own access token, 0 when
\* the token has none; an entry appears or changes only in a step where a
\* token request succeeds, and disappears only in flushMemoryCache or in a
\* getToken for its audience that finds it expired.
C30_MemoryCacheEntries ==
    /\ [](\A k \in DOMAIN tokenCache :
            /\ \E X \in Audiences :
                 k = getCacheKey(X) /\ tokenCache[k].audience = X
            /\ tokenCache[k].expiry =
                 IF tokenCache[k].access_token.exp = NoExp
                     THEN 0 ELSE tokenCache[k].access_token.exp)
    /\ [][\A X \in Audiences :
            LET k == getCacheKey(X) IN
            /\ (/\ k \in DOMAIN tokenCache'
                /\ k \in DOMAIN tokenCache => tokenCache'[k] # tokenCache[k])
                 => \E p \in 1..Len(promises) : \E exp \in ExpClaimChoices :
                        /\ TokenRequestSucceeds(p, exp)
                        /\ promises[p].audienceType = X
            /\ (k \in DOMAIN tokenCache /\ k \notin DOMAIN tokenCache')
                 => \/ flushMemoryCache
                    \/ /\ getToken(X)
                       /\ isTokenExpired(tokenCache[k], oauthConfig.refreshWindow, clock)]_vars

\* C30 witness: the entry for ZEEBE holds the token of the second request,
\* which has no exp claim (expiry 0); the first request's token, with an exp
\* claim, was cached under the same key, found expired by the second getToken
\* and removed.
C30_Witness ==
    LET k == getCacheKey("ZEEBE") IN
    /\ k \in DOMAIN tokenCache
    /\ tokenCache[k].audience = "ZEEBE"
    /\ tokenCache[k].access_token.serial = 2
    /\ tokenCache[k].access_token.exp = NoExp
    /\ tokenCache[k].expiry = 0
    /\ Len(calls) >= 2
    /\ \A c \in 1..2 :
         /\ calls[c].audience = "ZEEBE"
         /\ calls[c].status = "resolved"
         /\ calls[c].via = "request"
         /\ calls[c].promise = c
    /\ calls[1].result.exp # NoExp

----------------------------------------------------------------------------
(* Claims about the lossless JSON codec, checked under SpecCodec *)

RECURSIVE Flatten(_)
\* The concatenation of a sequence of sequences.
Flatten(ss) == IF ss = << >> THEN << >> ELSE Head(ss) \o Flatten(Tail(ss))

RECURSIVE UndirectedTexts(_, _, _)
\* The literals of a document that sit in fields without a directive, in
\* document order: class is the class whose directives apply to the fields of
\* doc, inField whether doc sits in (or in an array in) an undecorated field.
UndirectedTexts(doc, class, inField) ==
    CASE doc.t = "jnum" -> IF inField THEN <<doc.text>> ELSE << >>
      [] doc.t = "jarr" ->
           Flatten([i \in DOMAIN doc.elems |-> UndirectedTexts(doc.elems[i], class, inField)])
      [] doc.t = "jobj" ->
           Flatten([i \in DOMAIN doc.members |->
              LET directive == getMetadata(Class(class), doc.members[i].k)
              IN  IF directive.type = "undefined"
                    THEN UndirectedTexts(doc.members[i].v, "Object", TRUE)
                  ELSE IF directive.type = MetadataKey.CHILD_DTO
                    THEN UndirectedTexts(doc.members[i].v, directive.class, FALSE)
                  ELSE << >>])
      [] OTHER -> << >>

RECURSIVE Leaves(_, _)
\* The texts of the values of type kind inside a value, in traversal order.
Leaves(v, kind) ==
    CASE v.t = kind -> IF kind = "number" THEN <<v.num>> ELSE <<v.value>>
      [] v.t = "array" /\ kind # "array" ->
           Flatten([i \in DOMAIN v.items |-> Leaves(v.items[i], kind)])
      [] v.t = "object" /\ kind # "object" ->
           Flatten([i \in DOMAIN v.entries |-> Leaves(v.entries[i].v, kind)])
      [] OTHER -> << >>

\* The integers a double holds exactly, among the literals of the model:
\* 7 and 2^53 - 1, but neither 2^53 + 1 nor 2^63 - 1.
ExactlyRepresentable(text) == text \in {"7", "9007199254740991"}

\* A document with every field of the type its directive requires, parsed
\* directly (not one losslessStringify made), without keyToParse.
DirectParseDone ==
    obj = None /\ parsed # None /\ keyToParse = "" /\ json \notin IllTypedDocs

\* C8: parsing an object with class Dto, the integer literal under an
\* Int64String field comes back as the string of exactly its digits and the one
\* under a BigIntValue field as the bigint of exactly its digits, at the top
\* level and in the child; and these fields never make the parse throw.
C8_DirectedIntegersKeepEveryDigit ==
    (DirectParseDone /\ dto = "Dto" /\ json.t = "jobj"
        /\ Get(json.members, "child").t = "jobj") =>
        LET child == Get(json.members, "child")
        IN  IF IsThrown(parsed)
              THEN \E i \in DOMAIN UndirectedTexts(json, dto, FALSE) :
                      ~ExactlyRepresentable(UndirectedTexts(json, dto, FALSE)[i])
              ELSE /\ Get(parsed.entries, "key")
                        = [t |-> "string", str |-> Get(json.members, "key").text]
                   /\ Get(parsed.entries, "big")
                        = [t |-> "bigint", big |-> Get(json.members, "big").text]
                   /\ Get(Get(parsed.entries, "child").entries, "key")
                        = [t |-> "string", str |-> Get(child.members, "key").text]

\* C8 witness: 2^63 - 1 parsed into an Int64String field and 2^53 + 1 into a
\* BigIntValue field, and the parse returned.
C8_Witness ==
    /\ DirectParseDone /\ dto = "Dto" /\ json.t = "jobj"
    /\ ~IsThrown(parsed)
    /\ Get(json.members, "key").text = "9223372036854775807"
    /\ Get(json.members, "big").text = "9007199254740993"
    /\ Get(parsed.entries, "big").big = "9007199254740993"

\* C9: with or without a Dto, if some literal in a field without a directive
\* (at any depth, in nested objects and arrays) is not exactly representable,
\* losslessParse throws the unsafe-number error; otherwise it returns, every
\* such literal is a native number with the same digits, in the same place,
\* and no LosslessNumber is left in the result.
C9_UndirectedNumbersNativeOrThrow ==
    DirectParseDone =>
        LET texts == UndirectedTexts(json, dto, FALSE)
        IN  IF \E i \in DOMAIN texts : ~ExactlyRepresentable(texts[i])
              THEN IsThrown(parsed) /\ parsed.error = "UnsafeNumber"
              ELSE /\ ~IsThrown(parsed)
                   /\ Leaves(parsed, "number") = texts
                   /\ Leaves(parsed, "LosslessNumber") = << >>

\* C9 witness: with class Dto, the only unsafe literal sits in an array under
\* the undecorated field n, and losslessParse threw the unsafe-number error.
C9_Witness ==
    /\ DirectParseDone /\ dto = "Dto" /\ json.t = "jobj"
    /\ Get(json.members, "n") = JArr(<<JNum("9007199254740993")>>)
    /\ Get(Get(json.members, "child").members, "n").text = "7"
    /\ parsed = Thrown("UnsafeNumber", "n")

\* C10: for a Dto instance with fields under every directive kind,
\* losslessParse(losslessStringify(x), Dto) is deep-equal to x.
C10_RoundTripIsIdentity ==
    (obj # None /\ parsed # None) => parsed = obj

\* What parsing each element of an array document with dto (LosslessDto when
\* none is given) yields: the array of the results in order, or the first error.
EachParsedWith(elems, class) ==
    LET rs == [i \in DOMAIN elems |->
                 losslessParse(elems[i], IF class = "undefined" THEN "LosslessDto" ELSE class, "")]
    IN  FirstThrownOr(rs, Array(rs))

KeyedParseDone == obj = None /\ parsed # None /\ keyToParse # ""

IllTypedField(doc) ==
    CHOOSE field \in {"key", "big", "keys", "bigs"} :
        \E v \in NotANumber \cup NotAnArrayOfNumbers : doc = WithField(field, v)

IllTypedParseDone == obj = None /\ parsed # None /\ json \in IllTypedDocs

\* C23: parsing with class Dto a document in which the value under an
\* Int64String, BigIntValue, Int64StringArray or BigIntValueArray field is not
\* of the type the directive requires throws the type-mismatch error naming
\* that field; no object is returned.
C23_IllTypedFieldThrows ==
    IllTypedParseDone => parsed = TypeMismatch(IllTypedField(json))

RECURSIVE ContainsUnsupported(_)
\* Whether a value is, or holds at some depth, a Date, a Map or a Set.
ContainsUnsupported(v) ==
    CASE v.t \in {"Date", "Map", "Set"} -> TRUE
      [] v.t = "array" -> \E i \in DOMAIN v.items : ContainsUnsupported(v.items[i])
      [] v.t = "object" -> \E i \in DOMAIN v.entries : ContainsUnsupported(v.entries[i].v)
      [] OTHER -> FALSE

\* C24: losslessStringify of a value that is, or holds at any depth in its
\* objects and arrays, a Date, a Map or a Set throws the unsupported-type
\* error; no JSON text is emitted for it.
C24_UnsupportedTypesRejected ==
    (obj # None /\ json # None /\ ContainsUnsupported(obj)) =>
        json = Thrown("UnsupportedType", "")

\* C24 witness: a Dto instance holding a Set in an array inside an object
\* under its field n was given to losslessStringify, which threw.
C24_Witness ==
    /\ obj # None
    /\ obj.t = "object"
    /\ obj.class = "Dto"
    /\ Get(obj.entries, "n") = Object("Object", <<Entry("m", Array(<<Set>>))>>)
    /\ json = Thrown("UnsupportedType", "")

\* C32: in the text losslessStringify makes of a Dto instance, the
\* Int64String field and the BigIntValue field, of the instance itself and of
\* the Dto instance nested in it, are JSON numbers with the digits the
\* instance holds, not strings.
C32_Int64FieldsEmittedAsBareIntegers ==
    (obj \in DtoInstances /\ json # None) =>
        LET child == Get(obj.entries, "child")
            jchild == Get(json.members, "child")
        IN  /\ json.t = "jobj"
            /\ Get(json.members, "key") = JNum(Get(obj.entries, "key").str)
            /\ Get(json.members, "big") = JNum(Get(obj.entries, "big").big)
            /\ jchild.t = "jobj"
            /\ Get(jchild.members, "key") = JNum(Get(child.entries, "key").str)
            /\ Get(jchild.members, "big") = JNum(Get(child.entries, "big").big)

\* C32 witness: an instance holding 9223372036854775807 as a string under
\* key and as a bigint under big, and 7 as a string in its child, was
\* stringified; all appear as bare numbers, digit for digit.
C32_Witness ==
    /\ obj \in DtoInstances
    /\ Get(obj.entries, "key") = String("9223372036854775807")
    /\ Get(obj.entries, "big") = BigInt("9223372036854775807")
    /\ Get(Get(obj.entries, "child").entries, "key") = String("7")
    /\ json # None
    /\ json.t = "jobj"
    /\ Get(json.members, "key") = JNum("9223372036854775807")
    /\ Get(json.members, "big") = JNum("9223372036854775807")
    /\ Get(Get(json.members, "child").members, "key") = JNum("7")
    /\ Get(Get(json.members, "child").members, "big") = JNum("9223372036854775807")

\* What a document for class Child must come back as: the instance of Child
\* with key as a string, big as a bigint and n as a native number.
ChildInstance(c) ==
    Object("Child", <<Entry("key", String(Get(c.members, "key").text)),
                      Entry("big", BigInt(Get(c.members, "big").text)),
                      Entry("n", Number(Get(c.members, "n").text))>>)

UnsafeChild(c) == ~ExactlyRepresentable(Get(c.members, "n").text)

\* C33: parsed with class Dto, the object under the ChildDto(Child) field
\* comes back as an instance of Child with its Int64String field a string,
\* its BigIntValue field a bigint and its undecorated number native, digit
\* for digit; an array under that field comes back as the array of such
\* instances, in order; and if the undecorated number of the object, or of
\* any element, is unsafe, the parse throws the unsafe-number error.
C33_ChildDtoParsedWithChildDirectives ==
    (DirectParseDone /\ json \in ChildFieldDocs) =>
        LET v == Get(json.members, "child")
            cs == IF v.t = "jarr" THEN v.elems ELSE <<v>>
        IN  IF \E i \in DOMAIN cs : UnsafeChild(cs[i])
              THEN IsThrown(parsed) /\ parsed.error = "UnsafeNumber"
              ELSE /\ ~IsThrown(parsed)
                   /\ Get(parsed.entries, "child") =
                        IF v.t = "jarr"
                          THEN Array([i \in DOMAIN cs |-> ChildInstance(cs[i])])
                          ELSE ChildInstance(v)

\* C33 witness: an array of two Child documents, the first with 2^63 - 1 under
\* key and the second under big, was parsed into two instances of Child.
C33_Witness ==
    /\ DirectParseDone /\ json \in ChildFieldDocs
    /\ Get(json.members, "child") =
         JArr(<<ChildDoc("9223372036854775807", "7", "7"),
                ChildDoc("7", "9223372036854775807", "7")>>)
    /\ ~IsThrown(parsed)
    /\ Get(parsed.entries, "child").t = "array"
    /\ Get(parsed.entries, "child").items[1].class = "Child"
    /\ Get(Get(parsed.entries, "child").items[1].entries, "key") = String("9223372036854775807")
    /\ Get(Get(parsed.entries, "child").items[2].entries, "big") = BigInt("9223372036854775807")

----------------------------------------------------------------------------
(* Claims about the specialized class factories, checked under SpecFactory *)

\* The calls of the factories that returned a class.
Returned == {i \in 1..Len(factoryCalls) : factoryCalls[i].class # 0}

SameShapes(i, j) ==
    /\ factoryCalls[i].factory = factoryCalls[j].factory
    /\ factoryCalls[i].variables = factoryCalls[j].variables
    /\ factoryCalls[i].customHeaders = factoryCalls[j].customHeaders

\* C11: two calls of one factory with differing shape classes (also two
\* distinct classes declaring the same fields) return distinct classes, and the
\* class a call returns was created for the shapes of that call.
C11_DifferentShapesDifferentClasses ==
    /\ \A i, j \in Returned :
         (factoryCalls[i].factory = factoryCalls[j].factory /\ ~SameShapes(i, j))
            => factoryCalls[i].class # factoryCalls[j].class
    /\ \A i \in Returned :
         /\ classes[factoryCalls[i].class].reflectVariables = factoryCalls[i].variables
         /\ classes[factoryCalls[i].class].reflectCustomHeaders = factoryCalls[i].customHeaders

\* C12: for the class the job factory created for (Variables, CustomHeaders),
\* the registry losslessParse consults holds variables as a nested Dto of
\* Variables and customHeaders as one of CustomHeaders, and an activation
\* response parsed with it has variables.bigValue and customHeaders.bigHeader
\* as the strings of their digits and customHeaders.smallHeader as a number.
C12_FactoryClassDecodesNestedInt64 ==
    (/\ response # None
     /\ classes[factoryCalls[response.call].class].reflectVariables = "Variables"
     /\ classes[factoryCalls[response.call].class].reflectCustomHeaders = "CustomHeaders")
    => LET class == ClassName(factoryCalls[response.call].class)
           sent == Get(response.text.members, "jobs").elems[1]
       IN  /\ getMetadata(Class(class), "variables")
                = [type |-> MetadataKey.CHILD_DTO, class |-> "Variables"]
           /\ getMetadata(Class(class), "customHeaders")
                = [type |-> MetadataKey.CHILD_DTO, class |-> "CustomHeaders"]
           /\ ~IsThrown(response.parsed)
           /\ LET job == response.parsed.items[1]
              IN  /\ Get(Get(job.entries, "variables").entries, "bigValue")
                       = [t |-> "string",
                          str |-> Get(Get(sent.members, "variables").members, "bigValue").text]
                  /\ Get(Get(job.entries, "customHeaders").entries, "bigHeader")
                       = [t |-> "string", str |-> "1"]
                  /\ Get(Get(job.entries, "customHeaders").entries, "smallHeader")
                       = [t |-> "number", num |-> "2"]

\* C13: once a factory has returned a class for some shapes, every later call
\* with the same shapes returns that same class, whatever calls came between;
\* and an entry of a cache is never removed or replaced.
C13_SameShapesSameClass ==
    /\ [](\A i, j \in 1..Len(factoryCalls) :
            (i < j /\ i \in Returned /\ SameShapes(i, j))
               => factoryCalls[j].class = factoryCalls[i].class)
    /\ [][\A f \in {"job", "processInstance"} : \A k \in DOMAIN cache[f] :
            k \in DOMAIN cache'[f] /\ cache'[f][k] = cache[f][k]]_vars

\* C13 witness: the job factory is called for (Variables, CustomHeaders), then
\* for other shapes, then for (Variables, CustomHeaders) again, and returns
\* the class of the first call.
C13_Witness ==
    /\ Len(factoryCalls) >= 3
    /\ \A i \in 1..3 : factoryCalls[i].factory = "job"
    /\ factoryCalls[1].variables = "Variables"
    /\ factoryCalls[1].customHeaders = "CustomHeaders"
    /\ factoryCalls[2].variables = "VariablesTwin"
    /\ SameShapes(1, 3)
    /\ factoryCalls[1].class # 0
    /\ factoryCalls[3].class = factoryCalls[1].class

----------------------------------------------------------------------------
(* Claims about the body of the token request, checked under SpecAudience *)

\* The values of the audience parameters of the body, in order.
AudienceParams ==
    LET ps == SelectSeq(tokenRequestBody, LAMBDA p : p.name = "audience")
    IN  [i \in DOMAIN ps |-> ps[i].value]

\* C34: the body of the token request has no audience parameter when the
\* audience is MODELER, the deployment is not SaaS and no
\* CAMUNDA_MODELER_OAUTH_AUDIENCE is set; it has the one parameter
\* audience=api.cloud.camunda.io when the audience is MODELER on SaaS; in
\* every other case it has the one parameter audience=<the string configured
\* for the audience requested>.
C34_AudienceParameter ==
    tokenRequestBody # None =>
        LET type == audienceCase.audienceType
            modeler == audienceCase.CAMUNDA_MODELER_OAUTH_AUDIENCE
        IN  IF type = "MODELER" /\ ~audienceCase.isCamundaSaaS
               /\ modeler \in {"undefined", ""}
              THEN AudienceParams = << >>
            ELSE IF type = "MODELER" /\ audienceCase.isCamundaSaaS
              THEN AudienceParams = <<"api.cloud.camunda.io">>
            ELSE AudienceParams = <<audienceMap[type]>>

\* C34 witness: a self-managed deployment without a Modeler audience built
\* the body of a MODELER request: client id, secret and grant type, and no
\* audience.
C34_Witness ==
    /\ audienceCase.audienceType = "MODELER"
    /\ ~audienceCase.isCamundaSaaS
    /\ audienceCase.CAMUNDA_MODELER_OAUTH_AUDIENCE = "undefined"
    /\ audienceCase.CAMUNDA_TOKEN_SCOPE = "undefined"
    /\ tokenRequestBody # None
    /\ Len(tokenRequestBody) = 3
    /\ tokenRequestBody[1].name = "client_id"


----------------------------------------------------------------------------
(* Claims about constructOauthProvider, checked under SpecProvider *)

\* The 6-bit digit a base64 character stands for (64: padding).
Base64Digit(char) == CHOOSE d \in 0..64 : Base64Alphabet[d + 1] = char

RECURSIVE decodeBase64(_)
\* The byte string a base64 text spells.
decodeBase64(chars) ==
    IF Len(chars) < 4 THEN << >>
    ELSE LET d1 == Base64Digit(chars[1])
             d2 == Base64Digit(chars[2])
             d3 == Base64Digit(chars[3])
             d4 == Base64Digit(chars[4])
             b1 == d1 * 4 + d2 \div 16
             b2 == (d2 % 16) * 16 + d3 \div 4
             b3 == (d3 % 4) * 64 + d4
         IN  IF d3 = 64 THEN <<b1>>
             ELSE IF d4 = 64 THEN <<b1, b2>>
             ELSE <<b1, b2, b3>> \o decodeBase64(SubSeq(chars, 5, Len(chars)))

\* The configuration handed over holds everything an OAuthProvider requires.
OAuthConfigured(c) ==
    /\ c.CAMUNDA_OAUTH_URL # "undefined"
    /\ c.ZEEBE_CLIENT_ID # "undefined"
    /\ c.ZEEBE_CLIENT_SECRET # "undefined"

\* C35: constructOauthProvider returns a NullAuthProvider, whose getToken
\* resolves to '' for every audience, when CAMUNDA_OAUTH_DISABLED is true or
\* the strategy is NONE, whatever else is configured; for the strategy BASIC
\* with both credentials configured, a BasicAuthProvider every getToken of
\* which resolves to the base64 text of username:password; and otherwise,
\* the configuration holding the OAuth settings, an OAuthProvider.
C35_ProviderSelectedByConfiguration ==
    authProvider # None =>
        LET c == sdkConfig.config
        IN  IF c.CAMUNDA_OAUTH_DISABLED = "true" \/ c.CAMUNDA_AUTH_STRATEGY = "NONE"
              THEN /\ authProvider.t = "NullAuthProvider"
                   /\ \A i \in DOMAIN tokens : tokens[i].token = << >>
            ELSE IF c.CAMUNDA_AUTH_STRATEGY = "BASIC"
              THEN (/\ c.CAMUNDA_BASIC_AUTH_USERNAME # "undefined"
                    /\ c.CAMUNDA_BASIC_AUTH_PASSWORD # "undefined") =>
                       /\ authProvider.t = "BasicAuthProvider"
                       /\ \A i \in DOMAIN tokens :
                            decodeBase64(tokens[i].token) =
                                Utf8(c.CAMUNDA_BASIC_AUTH_USERNAME) \o <<58>>
                                \o Utf8(c.CAMUNDA_BASIC_AUTH_PASSWORD)
            ELSE OAuthConfigured(c) => authProvider.t = "OAuthProvider"


----------------------------------------------------------------------------
(* Claims about addTenantIdToFilter, checked under SpecOperate *)

Keys(entries) == {entries[i].k : i \in DOMAIN entries}

\* C36: when the filter of the query has a tenantId key, the query comes back
\* as it was; otherwise the result keeps every field of the query but the
\* filter, its filter keeps every field of the original filter with its
\* value and has tenantId besides and nothing else, and tenantId is the
\* argument when one was passed and the client's CAMUNDA_TENANT_ID when none
\* was.
C36_TenantIdAddedToFilter ==
    enhancedQuery # None =>
        LET query == queryCall.query
            filter == IF Has(query.entries, "filter")
                        THEN Get(query.entries, "filter") ELSE None
            fields == IF filter.t = "object" THEN filter.entries ELSE << >>
        IN  IF "tenantId" \in Keys(fields)
              THEN enhancedQuery = query
              ELSE LET enhanced == Get(enhancedQuery.entries, "filter").entries
                   IN  /\ Keys(enhancedQuery.entries) = Keys(query.entries) \cup {"filter"}
                       /\ \A i \in DOMAIN query.entries :
                            query.entries[i].k # "filter" =>
                                Get(enhancedQuery.entries, query.entries[i].k)
                                    = query.entries[i].v
                       /\ Keys(enhanced) = Keys(fields) \cup {"tenantId"}
                       /\ \A i \in DOMAIN fields :
                            Get(enhanced, fields[i].k) = fields[i].v
                       /\ Get(enhanced, "tenantId") =
                            IF queryCall.tenantId # None
                              THEN queryCall.tenantId
                              ELSE operateConfig.CAMUNDA_TENANT_ID

\* C36 witness: { filter: { id: 3 }, size: 10 } passed without a tenantId to
\* a client configured with red5 came back with filter { id: 3, tenantId:
\* 'red5' } and size 10.
C36_Witness ==
    /\ operateConfig.CAMUNDA_TENANT_ID = String("red5")
    /\ queryCall.tenantId = None
    /\ queryCall.query = Query(Object("Object", <<Entry("id", Number("3"))>>), Number("10"))
    /\ enhancedQuery =
         Query(Object("Object", <<Entry("id", Number("3")),
                                  Entry("tenantId", String("red5"))>>),
               Number("10"))


----------------------------------------------------------------------------
(* Claims about getMetadata, checked under SpecMetadata *)

\* The class a target is, or is an instance of.
ClassOfTarget(target) == IF target.t = "function" THEN target.name ELSE target.class

\* C37: a lookup on a class or on an instance of it returns the directive
\* stored on the class for the field: type 'type:int64' for an @Int64String
\* field, and no type for a field that was not decorated.
C37_SameDirectiveForClassAndInstance ==
    metadataFound # None =>
        LET class == ClassOfTarget(metadataTarget)
        IN  /\ metadataFound = getMetadata(Class(class), metadataKey)
            /\ (\/ class \in {"Dto", "Child", "RestApiJob"} /\ metadataKey = "key"
                \/ class = "CustomHeaders" /\ metadataKey = "bigHeader")
                   => metadataFound.type = "type:int64"
            /\ (\/ metadataKey \in {"n", "smallHeader"}
                \/ class = "LosslessDto")
                   => metadataFound = NoMetadata

====
